---- MODULE Spec2Model ----
(***************************************************************************)
(* A model of the Swatantra chain core: core/blockchain.go (AddBlock,      *)
(* ValidateBlock, updateUTXOSet, rollbackUTXOSet, reorganizeChain,         *)
(* NewBlockchain), core/pow.go, core/types.go, core/merkle_tree.go,        *)
(* core/genesis.go, and the callers miner/miner.go and p2p/server.go.      *)
(*                                                                         *)
(* Hashes are modelled as the hashed content itself (a collision-free      *)
(* digest): two values have the same hash iff the hashed encodings are     *)
(* equal.  The integer a header digest is compared with the PoW target is  *)
(* given by HashInt, a fixed mixing function of the hashed fields, over    *)
(* HashBits bits instead of 256.  Time is counted in units of 1e9 ns.      *)
(***************************************************************************)
EXTENDS Integers, Sequences, FiniteSets, TLC

\* ------------------------------------------------------------------ bounds
HashBits == 16
MaxNonce == 64
MaxBlocks == 3
MaxShortBlocks == 2
MaxCrashBlocks == 2
MaxCrashStep == 8
MaxConcBlocks == 2
MaxMinerHeight == 2
MaxRestartBlocks == 1
MempoolSize == 2
MaxBlockSize == 2
BucketSize == 5
MaxNodeBlocks == 1
MaxPeerBlocks == 2
MaxGossipBlocks == 2
MaxGossipMessages == 14
InitialDifficulty == 2

\* ------------------------------------------------------- program constants
TargetBlockTime == 15
emaAlphaNumerator == 95
emaAlphaDenominator == 1000
GenesisTimestamp == 1704067200
GenesisSupply == 1000
BlockReward == 50

\* -------------------------------------------------------------- primitives
\* Values are records throughout, so that any two of them can be compared.
Nil == [nil |-> TRUE]
ZeroHash == [zero |-> TRUE]
ZeroAddress == [zero |-> TRUE]
Ok == "nil"

IsZero(h) == h = ZeroHash

\* Keccak-256, collision-free: the digest stands for the data hashed.
Keccak256(data) == [keccak |-> data]

\* Ed25519: a signature verifies under the public key of the signing key,
\* for the data signed.
Public(priv) == [pub |-> priv]
AddressOf(pub) == [addr |-> Keccak256(pub)]
SignData(priv, data) == [signer |-> Public(priv), data |-> data]
VerifySig(pub, data, sig) == sig = [signer |-> pub, data |-> data]

RECURSIVE Pow2(_)
Pow2(n) == IF n <= 0 THEN 1 ELSE 2 * Pow2(n - 1)

\* Division rounding toward minus infinity.
FloorDiv(a, b) == a \div b

\* Go's integer division truncates toward zero.
TruncDiv(a, b) == IF a >= 0 THEN a \div b ELSE -((-a) \div b)

\* ------------------------------------------------------------ transactions
TxIn(prevTxHash, prevOutIndex) ==
    [PrevTxHash |-> prevTxHash, PrevOutIndex |-> prevOutIndex,
     PublicKey |-> Nil, Signature |-> Nil]
TxOut(value, address) == [Value |-> value, Address |-> address]
NewTransaction(inputs, outputs) == [Inputs |-> inputs, Outputs |-> outputs]

IsCoinbase(tx) == Len(tx.Inputs) = 1 /\ IsZero(tx.Inputs[1].PrevTxHash)

\* The digest covers the inputs' references and the outputs, not the
\* signatures and public keys.
TxHash(tx) ==
    Keccak256([Inputs |-> [i \in 1..Len(tx.Inputs) |->
                              [PrevTxHash |-> tx.Inputs[i].PrevTxHash,
                               PrevOutIndex |-> tx.Inputs[i].PrevOutIndex]],
               Outputs |-> tx.Outputs])

SignTx(tx, priv) ==
    [tx EXCEPT !.Inputs =
        [i \in 1..Len(tx.Inputs) |->
            [tx.Inputs[i] EXCEPT !.Signature = SignData(priv, TxHash(tx)),
                                 !.PublicKey = Public(priv)]]]

VerifyTx(tx) ==
    \/ IsCoinbase(tx)
    \/ \A i \in 1..Len(tx.Inputs) :
          VerifySig(tx.Inputs[i].PublicKey, TxHash(tx), tx.Inputs[i].Signature)

\* ------------------------------------------------------------- Merkle tree
RECURSIVE MerkleLevel(_)
MerkleLevel(nodes) ==
    IF Len(nodes) <= 1 THEN nodes
    ELSE LET even == IF Len(nodes) % 2 # 0
                     THEN Append(nodes, nodes[Len(nodes)]) ELSE nodes
             up == [i \in 1..(Len(even) \div 2) |->
                        Keccak256([l |-> even[2 * i - 1], r |-> even[2 * i]])]
         IN MerkleLevel(up)

\* NewMerkleTree(txs).RootNode.Data; Nil stands for the nil tree returned
\* for an empty list.
MerkleRoot(txs) ==
    IF Len(txs) = 0 THEN Nil
    ELSE MerkleLevel([i \in 1..Len(txs) |-> Keccak256(TxHash(txs[i]))])[1]

\* ----------------------------------------------------------------- headers
NewHeader(prevHash, height, merkleRoot, timestamp, difficulty, nonce, ema, work) ==
    [Version |-> 1, PrevHash |-> prevHash, Height |-> height,
     MerkleRoot |-> merkleRoot, Timestamp |-> timestamp,
     Difficulty |-> difficulty, Nonce |-> nonce, EMABlockTime |-> ema,
     CumulativeWork |-> work]

\* Header.Encode: every field of the header.
HeaderEncode(h) == h

\* EncodeForHashing: the header without CumulativeWork.
EncodeForHashing(h) ==
    [Version |-> h.Version, PrevHash |-> h.PrevHash, Height |-> h.Height,
     MerkleRoot |-> h.MerkleRoot, Timestamp |-> h.Timestamp,
     Difficulty |-> h.Difficulty, Nonce |-> h.Nonce,
     EMABlockTime |-> h.EMABlockTime]

HeaderHash(h) == Keccak256(EncodeForHashing(h))

NewBlock(h, txs) == [Header |-> h, Transactions |-> txs]
BlockHash(b) == HeaderHash(b.Header)

\* The digest of a header read as a big-endian integer, below HashSpace.
HashSpace == Pow2(HashBits)
Mix(coef, v) == (coef * (v % HashSpace)) % HashSpace
PrevMix(prevHash) ==
    IF IsZero(prevHash) THEN 0
    ELSE Mix(911, prevHash.keccak.Height) + Mix(3571, prevHash.keccak.Nonce)
            + Mix(77, prevHash.keccak.Timestamp)
HashInt(h) ==
    (PrevMix(h.PrevHash) + Mix(7919, h.Height) + Mix(1031, h.Timestamp)
        + Mix(4793, h.Difficulty) + Mix(9973, h.Nonce)
        + Mix(13, h.EMABlockTime) + Mix(5, h.Version)) % HashSpace

\* NewProofOfWork: target = 1 << (256 - difficulty), the shift count being
\* an unsigned integer: for a difficulty above the number of hash bits the
\* subtraction wraps to a count near 2^32 and the target is above every
\* digest.  HashSpace stands for that target: every digest is below it and
\* 2^bits / (target + 1) is 0, as for the target the code computes.
Target(difficulty) ==
    IF difficulty <= HashBits THEN Pow2(HashBits - difficulty) ELSE HashSpace

PowValidate(h) == HashInt(h) < Target(h.Difficulty)

\* ProofOfWork.Work: 2^bits / (target + 1).
Work(h) == HashSpace \div (Target(h.Difficulty) + 1)

\* ProofOfWork.Run: the first nonce, counting from 0, whose digest is below
\* the target.  The search is cut at MaxNonce: a result above MaxNonce
\* stands for a search that has not ended yet.
RECURSIVE PowSearch(_, _)
PowSearch(h, nonce) ==
    IF nonce > MaxNonce \/ PowValidate([h EXCEPT !.Nonce = nonce]) THEN nonce
    ELSE PowSearch(h, nonce + 1)

\* The search started at nonce 1.
PowRunFromOne(h) == PowSearch(h, 1)

PowRun(h) == PowSearch(h, 0)

\* ------------------------------------------------------------- chain state
\* A chain value c is the Blockchain object together with its store:
\*   c.store.blocks   block hash -> block            (BlockStore)
\*   c.store.utxo     <<tx hash, index>> -> output   (prefix 'u')
\*   c.store.undo     block hash -> spent outputs    (prefix 'z')
\*   c.store.head     <<>> or <<hash>>               (key "head")
\*   c.headers        bc.headers,  c.head  bc.head (Nil before it is set)
\* c.steps counts the effects (store writes and assignments to bc.headers
\* and bc.head) the execution has come to; an execution that is interrupted
\* after c.limit effects performs none of the later ones (c.limit < 0: no
\* interruption), so c.steps > c.limit tells that it was interrupted.
EmptyStore == [blocks |-> <<>>, utxo |-> <<>>, undo |-> <<>>, head |-> <<>>]

NewChain(store, limit) ==
    [store |-> store, headers |-> <<>>, head |-> Nil, steps |-> 0, limit |-> limit]

Running(c) == c.limit < 0 \/ c.steps < c.limit

MapPut(f, k, v) == [x \in (DOMAIN f) \cup {k} |-> IF x = k THEN v ELSE f[x]]
MapDelete(f, k) == [x \in (DOMAIN f) \ {k} |-> f[x]]

Effect(c, new) ==
    IF Running(c) THEN [new EXCEPT !.steps = c.steps + 1]
    ELSE [c EXCEPT !.steps = c.steps + 1]

StorePutBlock(c, hash, b) ==
    Effect(c, [c EXCEPT !.store.blocks = MapPut(@, hash, b)])
StorePutUTXO(c, key, out) ==
    Effect(c, [c EXCEPT !.store.utxo = MapPut(@, key, out)])
StoreDeleteUTXO(c, key) ==
    Effect(c, [c EXCEPT !.store.utxo = MapDelete(@, key)])
StorePutUndo(c, hash, undo) ==
    Effect(c, [c EXCEPT !.store.undo = MapPut(@, hash, undo)])
StoreDeleteUndo(c, hash) ==
    Effect(c, [c EXCEPT !.store.undo = MapDelete(@, hash)])
StorePutHead(c, hash) ==
    Effect(c, [c EXCEPT !.store.head = <<hash>>])

SetHeaderIndex(c, hash, h) == Effect(c, [c EXCEPT !.headers = MapPut(@, hash, h)])
SetHead(c, h) == Effect(c, [c EXCEPT !.head = h])

Result(c, err) == [c |-> c, err |-> err]

getUTXOKey(hash, index) == <<hash, index>>
HasUTXO(c, hash, index) == getUTXOKey(hash, index) \in DOMAIN c.store.utxo

\* ---------------------------------------------------- difficulty controller
lowerBound == TargetBlockTime - TruncDiv(TargetBlockTime, 4)
upperBound == TargetBlockTime + TruncDiv(TargetBlockTime, 2)

\* CalculateNextDifficulty(parent, ts) = <<difficulty, ema>>.
CalculateNextDifficulty(parentHeader, newTimestamp) ==
    IF parentHeader.Height = 0
    THEN <<parentHeader.Difficulty, parentHeader.EMABlockTime>>
    ELSE LET actualBlockTime == newTimestamp - parentHeader.Timestamp
             newEMA == TruncDiv(emaAlphaNumerator * actualBlockTime
                                + (emaAlphaDenominator - emaAlphaNumerator)
                                    * parentHeader.EMABlockTime,
                                emaAlphaDenominator)
             newDifficulty ==
                 IF newEMA < lowerBound THEN parentHeader.Difficulty + 1
                 ELSE IF newEMA > upperBound
                      THEN (IF parentHeader.Difficulty > 1
                            THEN parentHeader.Difficulty - 1 ELSE 1)
                      ELSE parentHeader.Difficulty
         IN <<newDifficulty, newEMA>>

\* -------------------------------------------------------------- validation
\* v bound to the parameter of F, evaluated once.
Bind(v, F(_)) == F(v)

\* Go's "if err != nil { return err }": r itself when it carries an error,
\* otherwise F continues on r's chain.
AndThen(r, F(_)) == IF r.err # Ok THEN r ELSE F(r.c)

\* ValidateTransaction: Ok, or the error returned (with valid = false).
ValidateTransaction(c, tx) ==
    IF IsCoinbase(tx) THEN Ok
    ELSE IF \E i \in 1..Len(tx.Inputs) :
                ~HasUTXO(c, tx.Inputs[i].PrevTxHash, tx.Inputs[i].PrevOutIndex)
         THEN "input not found in UTXO set"
         ELSE IF VerifyTx(tx) THEN Ok ELSE "invalid transaction"

RECURSIVE ValidateTxs(_, _, _)
ValidateTxs(c, txs, i) ==
    IF i > Len(txs) THEN Ok
    ELSE Bind(ValidateTransaction(c, txs[i]),
              LAMBDA e : IF e # Ok THEN e ELSE ValidateTxs(c, txs, i + 1))

\* The checks of ValidateBlock that follow the parent checks.
ValidateBody(c, b) ==
    IF ~PowValidate(b.Header) THEN Result(c, "invalid proof of work")
    ELSE IF Len(b.Transactions) = 0 THEN Result(c, "panic: nil MerkleTree")
    ELSE IF MerkleRoot(b.Transactions) # b.Header.MerkleRoot
         THEN Result(c, "invalid merkle root")
         ELSE Result(c, ValidateTxs(c, b.Transactions, 1))

\* ValidateBlock without its comparison of the EMA block time.
ValidateOnParentNoEMA(c, prevHeader, b) ==
    Bind(CalculateNextDifficulty(prevHeader, b.Header.Timestamp),
         LAMBDA expected :
            IF b.Header.Height # prevHeader.Height + 1
            THEN Result(c, "invalid height")
            ELSE IF b.Header.Difficulty # expected[1]
            THEN Result(c, "invalid difficulty")
            ELSE ValidateBody(c, b))

\* The checks of ValidateBlock against the parent header, once it is found.
ValidateOnParent(c, prevHeader, b) ==
    Bind(CalculateNextDifficulty(prevHeader, b.Header.Timestamp),
         LAMBDA expected :
            IF b.Header.Height # prevHeader.Height + 1
            THEN Result(c, "invalid height")
            ELSE IF b.Header.Difficulty # expected[1]
            THEN Result(c, "invalid difficulty")
            ELSE IF b.Header.EMABlockTime # expected[2]
            THEN Result(c, "invalid EMABlockTime")
            ELSE ValidateBody(c, b))

ValidateBlock(c, b) ==
    IF b.Header.Height > 0
    THEN IF b.Header.PrevHash \in DOMAIN c.headers
         THEN ValidateOnParent(c, c.headers[b.Header.PrevHash], b)
         ELSE IF b.Header.PrevHash \notin DOMAIN c.store.blocks
              THEN Result(c, "parent block not found")
              ELSE ValidateOnParent(
                       SetHeaderIndex(c, b.Header.PrevHash,
                                      c.store.blocks[b.Header.PrevHash].Header),
                       c.store.blocks[b.Header.PrevHash].Header, b)
    ELSE IF ~IsZero(b.Header.PrevHash)
         THEN Result(c, "genesis block must have zero prevhash")
         ELSE ValidateBody(c, b)

\* ------------------------------------------------------------- UTXO engine
\* The inputs of the non-coinbase transactions of b, in block order.
RECURSIVE SpendList(_, _)
SpendList(txs, i) ==
    IF i > Len(txs) THEN <<>>
    ELSE (IF IsCoinbase(txs[i]) THEN <<>> ELSE txs[i].Inputs) \o SpendList(txs, i + 1)

\* The outputs of all transactions of b with their keys, in block order.
RECURSIVE OutputList(_, _)
OutputList(txs, i) ==
    IF i > Len(txs) THEN <<>>
    ELSE [j \in 1..Len(txs[i].Outputs) |->
             [key |-> getUTXOKey(TxHash(txs[i]), j - 1), out |-> txs[i].Outputs[j]]]
         \o OutputList(txs, i + 1)

\* The first loop of updateUTXOSet without its store.Delete.
RECURSIVE SpendInputsNoDelete(_, _, _, _)
SpendInputsNoDelete(c, ins, i, undo) ==
    IF i > Len(ins) THEN [c |-> c, undo |-> undo, err |-> Ok]
    ELSE LET key == getUTXOKey(ins[i].PrevTxHash, ins[i].PrevOutIndex)
         IN IF key \notin DOMAIN c.store.utxo
            THEN [c |-> c, undo |-> undo, err |-> "could not find UTXO for input"]
            ELSE SpendInputsNoDelete(c, ins, i + 1,
                                     Append(undo, [TxHash |-> ins[i].PrevTxHash,
                                                   Index |-> ins[i].PrevOutIndex,
                                                   Output |-> c.store.utxo[key]]))

\* First loop of updateUTXOSet: r.c, r.undo, r.err.
RECURSIVE SpendInputs(_, _, _, _)
SpendInputs(c, ins, i, undo) ==
    IF i > Len(ins) THEN [c |-> c, undo |-> undo, err |-> Ok]
    ELSE LET key == getUTXOKey(ins[i].PrevTxHash, ins[i].PrevOutIndex)
         IN IF key \notin DOMAIN c.store.utxo
            THEN [c |-> c, undo |-> undo, err |-> "could not find UTXO for input"]
            ELSE SpendInputs(StoreDeleteUTXO(c, key), ins, i + 1,
                             Append(undo, [TxHash |-> ins[i].PrevTxHash,
                                           Index |-> ins[i].PrevOutIndex,
                                           Output |-> c.store.utxo[key]]))

RECURSIVE PutOutputs(_, _, _)
PutOutputs(c, outs, i) ==
    IF i > Len(outs) THEN c
    ELSE PutOutputs(StorePutUTXO(c, outs[i].key, outs[i].out), outs, i + 1)

updateUTXOSet(c, b) ==
    Bind(SpendInputs(c, SpendList(b.Transactions, 1), 1, <<>>),
         LAMBDA spent :
            IF spent.err # Ok THEN Result(spent.c, spent.err)
            ELSE Result(StorePutUndo(PutOutputs(spent.c, OutputList(b.Transactions, 1), 1),
                                     BlockHash(b), spent.undo), Ok))

RECURSIVE DeleteOutputs(_, _, _)
DeleteOutputs(c, outs, i) ==
    IF i > Len(outs) THEN c
    ELSE DeleteOutputs(StoreDeleteUTXO(c, outs[i].key), outs, i + 1)

RECURSIVE RestoreSpent(_, _, _)
RestoreSpent(c, undo, i) ==
    IF i > Len(undo) THEN c
    ELSE RestoreSpent(StorePutUTXO(c, getUTXOKey(undo[i].TxHash, undo[i].Index),
                                   undo[i].Output), undo, i + 1)

rollbackUTXOSet(c, b) ==
    IF BlockHash(b) \notin DOMAIN c.store.undo
    THEN Result(c, "could not find undo data for block")
    ELSE Result(StoreDeleteUndo(
                    RestoreSpent(DeleteOutputs(c, OutputList(b.Transactions, 1), 1),
                                 c.store.undo[BlockHash(b)], 1),
                    BlockHash(b)), Ok)

\* ----------------------------------------------------------- chain manager
RECURSIVE ChainWalk(_, _, _, _)
ChainWalk(headers, currentHash, endHash, path) ==
    IF currentHash = endHash \/ IsZero(currentHash) THEN [path |-> path, err |-> Ok]
    ELSE IF currentHash \notin DOMAIN headers
         THEN [path |-> <<>>, err |-> "header not found"]
         ELSE IF headers[currentHash].Height = 0
              THEN [path |-> Append(path, currentHash), err |-> Ok]
              ELSE ChainWalk(headers, headers[currentHash].PrevHash, endHash,
                             Append(path, currentHash))

\* The hashes from startHash back to endHash, endHash included.
getChainPathInclusive(c, startHash, endHash) ==
    IF IsZero(startHash) THEN [path |-> <<>>, err |-> Ok]
    ELSE IF IsZero(endHash) \/ ChainWalk(c.headers, startHash, endHash, <<>>).err # Ok
    THEN ChainWalk(c.headers, startHash, endHash, <<>>)
    ELSE [path |-> Append(ChainWalk(c.headers, startHash, endHash, <<>>).path, endHash),
          err |-> Ok]

\* getChainPath: the hashes from startHash back to endHash, endHash excluded.
getChainPath(c, startHash, endHash) ==
    IF IsZero(startHash) THEN [path |-> <<>>, err |-> Ok]
    ELSE ChainWalk(c.headers, startHash, endHash, <<>>)

InPath(path, h) == \E i \in 1..Len(path) : path[i] = h

\* The loop of findCommonAncestor over pathB, after setA is built from pathA.
firstCommon(pathA, pathB) ==
    IF pathA.err # Ok THEN [hash |-> ZeroHash, err |-> pathA.err]
    ELSE IF pathB.err # Ok THEN [hash |-> ZeroHash, err |-> pathB.err]
    ELSE IF \E i \in 1..Len(pathB.path) : InPath(pathA.path, pathB.path[i])
         THEN [hash |-> pathB.path[
                  CHOOSE i \in 1..Len(pathB.path) :
                      /\ InPath(pathA.path, pathB.path[i])
                      /\ \A j \in 1..(i - 1) : ~InPath(pathA.path, pathB.path[j])],
               err |-> Ok]
         ELSE [hash |-> ZeroHash, err |-> "no common ancestor found"]

\* findCommonAncestor: r.hash, r.err.
findCommonAncestor(c, hashA, hashB) ==
    IF IsZero(hashA) \/ IsZero(hashB) THEN [hash |-> ZeroHash, err |-> Ok]
    ELSE firstCommon(getChainPath(c, hashA, ZeroHash), getChainPath(c, hashB, ZeroHash))

\* Step 3 of reorganizeChain: roll back path[i..], from the old head down.
RECURSIVE RollbackBlocks(_, _, _)
RollbackBlocks(c, path, i) ==
    IF i > Len(path) THEN Result(c, Ok)
    ELSE IF path[i] \notin DOMAIN c.store.blocks THEN Result(c, "block not found")
    ELSE AndThen(rollbackUTXOSet(c, c.store.blocks[path[i]]),
                 LAMBDA c1 : RollbackBlocks(c1, path, i + 1))

\* Step 4 of reorganizeChain: apply path[i], path[i-1], ..., path[1].
RECURSIVE ApplyBlocks(_, _, _)
ApplyBlocks(c, path, i) ==
    IF i < 1 THEN Result(c, Ok)
    ELSE IF path[i] \notin DOMAIN c.store.blocks THEN Result(c, "block not found")
    ELSE AndThen(updateUTXOSet(c, c.store.blocks[path[i]]),
                 LAMBDA c1 : ApplyBlocks(c1, path, i - 1))

oldHeadHash(c) == IF c.head # Nil THEN HeaderHash(c.head) ELSE ZeroHash

\* Step 2 of reorganizeChain: the two paths, given the common ancestor.
pathsTo(blocksToRollback, blocksToApply) ==
    IF blocksToRollback.err # Ok
    THEN [blocksToRollback |-> <<>>, blocksToApply |-> <<>>,
          err |-> "could not get path to rollback"]
    ELSE IF blocksToApply.err # Ok
    THEN [blocksToRollback |-> <<>>, blocksToApply |-> <<>>,
          err |-> "could not get path to apply"]
    ELSE [blocksToRollback |-> blocksToRollback.path,
          blocksToApply |-> blocksToApply.path, err |-> Ok]

\* Steps 1 and 2 of reorganizeChain: the common ancestor and the two paths.
reorgPaths(c, newHeadBlock) ==
    Bind(findCommonAncestor(c, oldHeadHash(c), BlockHash(newHeadBlock)),
         LAMBDA ancestor :
            IF ancestor.err # Ok
            THEN [blocksToRollback |-> <<>>, blocksToApply |-> <<>>,
                  err |-> "could not find common ancestor"]
            ELSE pathsTo(getChainPath(c, oldHeadHash(c), ancestor.hash),
                         getChainPath(c, BlockHash(newHeadBlock), ancestor.hash)))

\* Step 5 of reorganizeChain, and the end of a straight extension in
\* AddBlock: bc.head = b.Header, then the head marker.
setHead(c, b) == Result(StorePutHead(SetHead(c, b.Header), BlockHash(b)), Ok)

\* Steps 3 to 5 of reorganizeChain.
reorgAlong(c, newHeadBlock, paths) ==
    IF paths.err # Ok THEN Result(c, paths.err)
    ELSE AndThen(RollbackBlocks(c, paths.blocksToRollback, 1),
           LAMBDA c1 :
             AndThen(ApplyBlocks(c1, paths.blocksToApply, Len(paths.blocksToApply)),
               LAMBDA c2 : setHead(c2, newHeadBlock)))

reorganizeChain(c, newHeadBlock) == reorgAlong(c, newHeadBlock, reorgPaths(c, newHeadBlock))

\* AddBlock is modelled in the parts between which another goroutine's
\* accesses to the same Blockchain can fall; AddBlock runs them in sequence.

\* The block kept with the CumulativeWork its submitter gave it.
withSubmittedWork(c, b) == b

\* AddBlock, "Hitung cumulative work": b with its CumulativeWork filled in.
withCumulativeWork(c, b) ==
    [b EXCEPT !.Header.CumulativeWork =
         c.headers[b.Header.PrevHash].CumulativeWork + Work(b.Header)]

\* Part 1 without the duplicate check.
addBlockCheckNoDuplicate(c, b) ==
    Bind(ValidateBlock(c, b),
         LAMBDA v : [c |-> v.c, err |-> v.err, go |-> v.err = Ok])

\* Part 1 with the block written to the block store before it is validated.
addBlockCheckAfterPut(c, b) ==
    IF BlockHash(b) \in DOMAIN c.headers THEN [c |-> c, err |-> Ok, go |-> FALSE]
    ELSE Bind(ValidateBlock(StorePutBlock(c, BlockHash(b), b), b),
              LAMBDA v : [c |-> v.c, err |-> v.err, go |-> v.err = Ok])

\* Part 1: the duplicate check and ValidateBlock.  r.go: the call continues.
addBlockCheck(c, b) ==
    IF BlockHash(b) \in DOMAIN c.headers THEN [c |-> c, err |-> Ok, go |-> FALSE]
    ELSE Bind(ValidateBlock(c, b),
              LAMBDA v : [c |-> v.c, err |-> v.err, go |-> v.err = Ok])

\* The comparison with bc.head, a fork of equal work reorganizing too.
nextPartOnTie(c, nb) ==
    IF nb.Header.PrevHash = HeaderHash(c.head) THEN "extend"
    ELSE IF nb.Header.CumulativeWork >= c.head.CumulativeWork THEN "reorg" ELSE "done"

\* The comparison of the stored block nb with bc.head.
nextPart(c, nb) ==
    IF nb.Header.PrevHash = HeaderHash(c.head) THEN "extend"
    ELSE IF nb.Header.CumulativeWork > c.head.CumulativeWork THEN "reorg" ELSE "done"

\* Part 2: cumulative work, blockStore.Put, bc.headers[blockHash], and the
\* comparison with bc.head.  r.b is the block stored, r.next the part that
\* follows: "extend", "reorg" or "done".
addBlockIndex(c, b) ==
    IF b.Header.PrevHash \notin DOMAIN c.headers
    THEN [c |-> c, b |-> b, err |-> "panic: nil prevHeader", next |-> "done"]
    ELSE Bind(withCumulativeWork(c, b),
              LAMBDA nb :
                 [c |-> SetHeaderIndex(StorePutBlock(c, BlockHash(b), nb),
                                       BlockHash(b), nb.Header),
                  b |-> nb, err |-> Ok, next |-> nextPart(c, nb)])

\* The straight extension with the head marker written before the UTXO set
\* is updated.
addBlockFromMarkerFirst(indexed) ==
    IF indexed.next = "extend"
    THEN AndThen(updateUTXOSet(StorePutHead(indexed.c, BlockHash(indexed.b)), indexed.b),
                 LAMBDA c1 : Result(SetHead(c1, indexed.b.Header), Ok))
    ELSE IF indexed.next = "reorg"
         THEN reorganizeChain(indexed.c, indexed.b)
         ELSE Result(indexed.c, indexed.err)

\* Parts 3 and 4 of a straight extension: updateUTXOSet, then the head.
addBlockFrom(indexed) ==
    IF indexed.next = "extend"
    THEN AndThen(updateUTXOSet(indexed.c, indexed.b),
                 LAMBDA c1 : setHead(c1, indexed.b))
    ELSE IF indexed.next = "reorg"
         THEN reorganizeChain(indexed.c, indexed.b)
         ELSE Result(indexed.c, indexed.err)

addBlockChecked(checked, b) ==
    IF ~checked.go THEN Result(checked.c, checked.err)
    ELSE addBlockFrom(addBlockIndex(checked.c, b))

\* AddBlock(b): r.c is the chain after the call, r.err the error returned.
AddBlock(c, b) == addBlockChecked(addBlockCheck(c, b), b)

\* GetBlocksFrom's loop: from currentHash back along prev-hash, each block
\* read from the block store and appended, until fromHash or genesis.
RECURSIVE blocksBackTo(_, _, _, _)
blocksBackTo(c, currentHash, fromHash, blocks) ==
    IF currentHash \notin DOMAIN c.store.blocks
    THEN [blocks |-> <<>>, err |-> "block not found"]
    ELSE IF BlockHash(c.store.blocks[currentHash]) = fromHash
    THEN [blocks |-> Append(blocks, c.store.blocks[currentHash]), err |-> Ok]
    ELSE IF c.store.blocks[currentHash].Header.Height = 0
    THEN [blocks |-> <<>>, err |-> "fromHash not found in chain"]
    ELSE blocksBackTo(c, c.store.blocks[currentHash].Header.PrevHash, fromHash,
                      Append(blocks, c.store.blocks[currentHash]))

Reverse(s) == [i \in 1..Len(s) |-> s[Len(s) + 1 - i]]

\* GetBlocksFrom without the reversal of the list.
GetBlocksFromHeadFirst(c, fromHash) ==
    blocksBackTo(c, HeaderHash(c.head), fromHash, <<>>)

\* GetBlocksFrom(fromHash): r.blocks the list returned, r.err the error.
GetBlocksFrom(c, fromHash) ==
    Bind(blocksBackTo(c, HeaderHash(c.head), fromHash, <<>>),
         LAMBDA r : [blocks |-> Reverse(r.blocks), err |-> r.err])

\* ----------------------------------------------------------------- genesis
GenesisCoinbase ==
    NewTransaction(<<TxIn(ZeroHash, 0)>>, <<TxOut(GenesisSupply, ZeroAddress)>>)

GenesisHeader(initialDifficulty) ==
    NewHeader(ZeroHash, 0, MerkleRoot(<<GenesisCoinbase>>), GenesisTimestamp,
              initialDifficulty, 0, TargetBlockTime, 0)

CreateGenesisBlock(initialDifficulty) ==
    NewBlock([GenesisHeader(initialDifficulty)
                 EXCEPT !.Nonce = PowRun(GenesisHeader(initialDifficulty))],
             <<GenesisCoinbase>>)

\* NewBlockchain on a store without head marker.
newGenesisChain(c, genesis) ==
    AndThen(updateUTXOSet(
                StorePutBlock(SetHead(SetHeaderIndex(c, BlockHash(genesis), genesis.Header),
                                      genesis.Header),
                              BlockHash(genesis), genesis),
                genesis),
            LAMBDA c1 : Result(StorePutHead(c1, BlockHash(genesis)), Ok))

\* NewBlockchain creating genesis whatever the store holds.
NewBlockchainGenesisAlways(store, initialDifficulty, limit) ==
    newGenesisChain(NewChain(store, limit), CreateGenesisBlock(initialDifficulty))

\* NewBlockchain(store, initialDifficulty), interrupted after limit effects
\* when limit >= 0.
NewBlockchain(store, initialDifficulty, limit) ==
    IF store.head = <<>>
    THEN newGenesisChain(NewChain(store, limit), CreateGenesisBlock(initialDifficulty))
    ELSE IF store.head[1] \notin DOMAIN store.blocks
         THEN Result(NewChain(store, limit), "block not found")
         ELSE Result(SetHead(NewChain(store, limit), store.blocks[store.head[1]].Header), Ok)

\* ------------------------------------------------------------------ inputs
\* Keys, addresses and transactions the environment draws from.
MinerKeys == {"X", "Y"}
LocalMiner == "X"
UserKey == "U"
MinerAddress(k) == AddressOf(Public(k))

\* The coinbase createNewBlock builds: one zero input, one output of 50.
CoinbaseTx(address) ==
    NewTransaction(<<TxIn(ZeroHash, 0)>>, <<TxOut(BlockReward, address)>>)

GenesisOut == TxHash(GenesisCoinbase)

\* Spends the genesis output (500 to X, 499 change).
PayTx ==
    SignTx(NewTransaction(<<TxIn(GenesisOut, 0)>>,
                          <<TxOut(500, MinerAddress("X")),
                            TxOut(499, AddressOf(Public(UserKey)))>>), UserKey)
\* A second spend of the genesis output.
RivalTx ==
    SignTx(NewTransaction(<<TxIn(GenesisOut, 0)>>,
                          <<TxOut(GenesisSupply, MinerAddress("Y"))>>), UserKey)
\* One transaction with two inputs referencing the same output.
DupInputTx ==
    SignTx(NewTransaction(<<TxIn(GenesisOut, 0), TxIn(GenesisOut, 0)>>,
                          <<TxOut(GenesisSupply, MinerAddress("X"))>>), UserKey)
\* Spends the reward of a block mined by X.
SpendRewardTx ==
    SignTx(NewTransaction(<<TxIn(TxHash(CoinbaseTx(MinerAddress("X"))), 0)>>,
                          <<TxOut(BlockReward, MinerAddress("Y"))>>), "X")

\* Spends the genesis output of 1000 into an output of 1500.
InsufficientFundsTx ==
    SignTx(NewTransaction(<<TxIn(GenesisOut, 0)>>,
                          <<TxOut(GenesisSupply + 500, MinerAddress("Y"))>>), UserKey)

\* The blocks built: who mines (the coinbase address) and the transactions
\* taken from the mempool.
Templates ==
    {[miner |-> "X", txs |-> <<>>], [miner |-> "X", txs |-> <<PayTx>>],
     [miner |-> "X", txs |-> <<PayTx, RivalTx>>], [miner |-> "X", txs |-> <<DupInputTx>>],
     [miner |-> "Y", txs |-> <<>>], [miner |-> "Y", txs |-> <<RivalTx>>],
     [miner |-> "Y", txs |-> <<SpendRewardTx>>]}

\* Time between a block and its parent: one target interval, or a timestamp
\* before the parent's (which raises the difficulty).  The child of genesis
\* keeps the genesis difficulty whatever its timestamp.
TimeDeltas(parentHeader) ==
    IF parentHeader.Height = 0 THEN {TargetBlockTime} ELSE {-20, TargetBlockTime}

\* createNewBlock followed by ProofOfWork.Run, as in Miner.loop.
createNewBlock(parentHeader, coinbase, txs, newTimestamp) ==
    LET allTxs == <<CoinbaseTx(coinbase)>> \o txs
        next == CalculateNextDifficulty(parentHeader, newTimestamp)
        h == NewHeader(HeaderHash(parentHeader), parentHeader.Height + 1,
                       MerkleRoot(allTxs), newTimestamp, next[1], 0, next[2], 0)
    IN NewBlock(h, allTxs)

Mined(b) == [b EXCEPT !.Header.Nonce = PowRun(b.Header)]

\* The blocks a miner (this node's or a peer's) can build on a known parent.
MinedOn(parentHeader, templates, deltas) ==
    {b \in {Mined(createNewBlock(parentHeader, MinerAddress(t.miner), t.txs,
                                 parentHeader.Timestamp + dt)) :
                t \in templates, dt \in deltas} :
        b.Header.Nonce <= MaxNonce}

\* Blocks a peer can send that break one header rule each.
UnknownParent == NewHeader(ZeroHash, 7, Nil, 0, InitialDifficulty, 0, TargetBlockTime, 0)
Tampered(parentHeader) ==
    LET b == createNewBlock(parentHeader, MinerAddress("X"), <<>>,
                            parentHeader.Timestamp + TargetBlockTime)
        u == createNewBlock(UnknownParent, MinerAddress("X"), <<>>, TargetBlockTime)
    IN {t \in {Mined([b EXCEPT !.Header.Height = @ + 1]),
                Mined([b EXCEPT !.Header.Difficulty = @ + 1]),
                Mined([b EXCEPT !.Header.EMABlockTime = @ + 1]),
                Mined([b EXCEPT !.Header.MerkleRoot = MerkleRoot(<<PayTx>>)]),
                [Mined(b) EXCEPT !.Header.Nonce = @ + 1],
                Mined([u EXCEPT !.Header.Height = parentHeader.Height + 1])} :
           t.Header.Nonce <= MaxNonce}

\* ------------------------------------------------------------------- state
\* store, headers, head: the node's store and its Blockchain object (head is
\*   Nil and headers empty while the process is stopped).
\* last: the last call completed, the block it was given and the error it
\*   returned.
\* accepted: the hashes of the blocks AddBlock has processed (not found
\*   already indexed) and returned nil for.
\* writers: for the miner goroutine and the P2P message loop, the part of
\*   AddBlock the goroutine is about to run ("idle": not inside AddBlock) and
\*   the block it is adding.
\* view: what a reader last observed, Head() and the UTXO namespace.
\* pool: the mempool of the node, the transactions Mempool.Add has accepted.
\* peer: the Blockchain object and store of the remote node of a connection.
\* conn: the connection between the node and the peer.
\* wire: toward each side, the messages sent and not yet read by its readLoop.
\* msgCh: on each side, the messages readLoop has queued for ProcessMessages.
\* limiter: on each side, the tokens of the RateLimiter of the connection and
\*   where its readLoop stands.
\* blacklist: the sides whose address the other side has blacklisted.
VARIABLES store, headers, head, last, accepted, writers, view,
          pool, peer, conn, wire, msgCh, limiter, blacklist

netvars == <<pool, peer, conn, wire, msgCh, limiter, blacklist>>

vars == <<store, headers, head, last, accepted, writers, view, netvars>>

Sides == {"node", "peer"}

Writers == {"miner", "p2p"}

\* The Blockchain object of the running node.
Chain == [store |-> store, headers |-> headers, head |-> head,
          steps |-> 0, limit |-> -1]

SetChain(c) ==
    /\ store' = c.store
    /\ headers' = c.headers
    /\ head' = c.head

\* A call of AddBlock(b) returns err; processed: it did not return at the
\* duplicate check.
Return(b, err, processed) ==
    /\ last' = [op |-> "AddBlock", block |-> b, err |-> err]
    /\ accepted' = IF err = Ok /\ processed
                   THEN accepted \cup {BlockHash(b)} ELSE accepted

\* No transaction submitted, no peer connected.
NoConn == [state |-> "none", initiator |-> "node", scenario |-> "none",
           hello |-> <<>>, handled |-> {}]

NetIdle ==
    /\ pool = {}
    /\ peer = Nil
    /\ conn = NoConn
    /\ wire = [s \in Sides |-> <<>>]
    /\ msgCh = [s \in Sides |-> <<>>]
    /\ limiter = [s \in Sides |-> [tokens |-> BucketSize, pc |-> "off"]]
    /\ blacklist = {}

Init ==
    LET r == NewBlockchain(EmptyStore, InitialDifficulty, -1)
        genesis == CreateGenesisBlock(InitialDifficulty)
    IN /\ store = r.c.store
       /\ headers = r.c.headers
       /\ head = r.c.head
       /\ last = [op |-> "NewBlockchain", block |-> genesis, err |-> r.err]
       /\ accepted = {BlockHash(genesis)}
       /\ writers = [w \in Writers |-> [pc |-> "idle", block |-> genesis]]
       /\ view = [head |-> r.c.head, utxo |-> r.c.store.utxo]
       /\ NetIdle

Up == head # Nil
Idle == \A w \in Writers : writers[w].pc = "idle"
HasRoom == Cardinality(DOMAIN store.blocks) <= MaxBlocks

\* The blocks the miner goroutine builds on Head(), and those a peer sends.
MinerBlocks ==
    MinedOn(head, {t \in Templates : t.miner = LocalMiner}, {TargetBlockTime})
PeerBlocks ==
    Tampered(head) \cup
    UNION {MinedOn(store.blocks[p].Header, Templates, TimeDeltas(store.blocks[p].Header)) :
             p \in DOMAIN store.blocks}

\* ---- one goroutine calls AddBlock at a time
Call(b) ==
    LET r == AddBlock(Chain, b)
    IN /\ SetChain(r.c)
       /\ Return(b, r.err, BlockHash(b) \notin DOMAIN headers)
       /\ UNCHANGED <<writers, view, netvars>>

\* Miner.loop: build a block on Head(), mine it, AddBlock it.
MinerAddBlock ==
    /\ Up /\ Idle /\ HasRoom
    /\ \E b \in MinerBlocks : Call(b)

\* Server.ProcessMessages, MessageTypeBlock: AddBlock of a block a peer sent.
PeerAddBlock ==
    /\ Up /\ Idle /\ HasRoom
    /\ \E b \in PeerBlocks : Call(b)

Next == MinerAddBlock \/ PeerAddBlock

Spec == Init /\ [][Next]_vars

\* ---- the same calls on a store of at most MaxShortBlocks + 1 blocks
ShortChain == Cardinality(DOMAIN store.blocks) <= MaxShortBlocks

NextShort == (ShortChain /\ MinerAddBlock) \/ (ShortChain /\ PeerAddBlock)

SpecShort == Init /\ [][NextShort]_vars

\* ---- the process stops inside AddBlock and the node is started again
\* AddBlock(b) performs only its first k effects: the process has stopped.
SmallChain == Cardinality(DOMAIN store.blocks) <= MaxCrashBlocks

CrashInAddBlock ==
    /\ Up /\ Idle /\ SmallChain
    /\ \E b \in MinerBlocks \cup PeerBlocks : \E k \in 1..MaxCrashStep :
          LET r == AddBlock([Chain EXCEPT !.limit = k], b)
          IN /\ r.c.steps > k
             /\ store' = r.c.store
             /\ headers' = <<>>
             /\ head' = Nil
             /\ last' = [op |-> "crash", block |-> b, err |-> Ok]
             /\ UNCHANGED <<accepted, writers, view, netvars>>

\* main: NewBlockchain on the store the stopped process left.
Reopen ==
    /\ ~Up
    /\ LET r == NewBlockchain(store, InitialDifficulty, -1)
       IN /\ r.err = Ok
          /\ SetChain(r.c)
          /\ last' = [op |-> "NewBlockchain", block |-> store.blocks[store.head[1]],
                      err |-> r.err]
          /\ UNCHANGED <<accepted, writers, view, netvars>>

NextCrash ==
    \/ SmallChain /\ MinerAddBlock
    \/ SmallChain /\ PeerAddBlock
    \/ CrashInAddBlock
    \/ Reopen

SpecCrash == Init /\ [][NextCrash]_vars

\* ---- the miner goroutine, the P2P message loop and a reader, interleaved
SetWriter(w, pc, b) == writers' = [writers EXCEPT ![w] = [pc |-> pc, block |-> b]]

Offered(w) == IF w = "miner" THEN MinerBlocks ELSE PeerBlocks

\* Blocks stored or about to be stored.
ConcRoom ==
    Cardinality(DOMAIN store.blocks)
        + Cardinality({w \in Writers : writers[w].pc = "index"}) <= MaxConcBlocks

\* w enters AddBlock(b) and runs part 1.
WriterCheck(w) ==
    /\ writers[w].pc = "idle" /\ ConcRoom
    /\ \E b \in Offered(w) :
          LET r == addBlockCheck(Chain, b)
          IN /\ SetChain(r.c)
             /\ IF r.go
                THEN SetWriter(w, "index", b) /\ UNCHANGED <<last, accepted>>
                ELSE UNCHANGED writers /\ Return(b, r.err, FALSE)
    /\ UNCHANGED <<view, netvars>>

WriterIndex(w) ==
    /\ writers[w].pc = "index"
    /\ LET r == addBlockIndex(Chain, writers[w].block)
       IN /\ SetChain(r.c)
          /\ SetWriter(w, IF r.next = "done" THEN "idle" ELSE r.next, r.b)
          /\ IF r.next = "done" THEN Return(writers[w].block, r.err, TRUE)
             ELSE UNCHANGED <<last, accepted>>
    /\ UNCHANGED <<view, netvars>>

WriterExtend(w) ==
    /\ writers[w].pc = "extend"
    /\ LET r == updateUTXOSet(Chain, writers[w].block)
       IN /\ SetChain(r.c)
          /\ IF r.err = Ok
             THEN SetWriter(w, "commit", writers[w].block) /\ UNCHANGED <<last, accepted>>
             ELSE SetWriter(w, "idle", writers[w].block) /\ Return(writers[w].block, r.err, TRUE)
    /\ UNCHANGED <<view, netvars>>

WriterCommit(w) ==
    /\ writers[w].pc = "commit"
    /\ LET r == setHead(Chain, writers[w].block)
       IN SetChain(r.c) /\ Return(writers[w].block, r.err, TRUE)
    /\ SetWriter(w, "idle", writers[w].block)
    /\ UNCHANGED <<view, netvars>>

WriterReorg(w) ==
    /\ writers[w].pc = "reorg"
    /\ LET r == reorganizeChain(Chain, writers[w].block)
       IN SetChain(r.c) /\ Return(writers[w].block, r.err, TRUE)
    /\ SetWriter(w, "idle", writers[w].block)
    /\ UNCHANGED <<view, netvars>>

\* A reader (API handler, mempool): Head(), then the UTXO namespace.
Read ==
    /\ view' = [head |-> head, utxo |-> store.utxo]
    /\ UNCHANGED <<store, headers, head, last, accepted, writers, netvars>>

NextConc ==
    \/ \E w \in Writers :
          \/ WriterCheck(w)
          \/ WriterIndex(w)
          \/ WriterExtend(w)
          \/ WriterCommit(w)
          \/ WriterReorg(w)
    \/ Read

SpecConc == Init /\ [][NextConc]_vars

\* -------------------------------------------------------------- properties
\* The persistent and in-memory state AddBlock works on.
ChainState == <<store, headers, head>>

\* C1: AddBlock is all-or-nothing: a call that returns an error leaves the
\* block store, the UTXO entries, the undo records, the head marker, the
\* header index and the in-memory head as they were before the call.
C1_AddBlockAllOrNothing ==
    [][(last'.op = "AddBlock" /\ last'.err # Ok) => ChainState' = ChainState]_vars

\* C9: updateUTXOSet never fails with a missing UTXO for a block that passed
\* ValidateBlock, two inputs referencing the same output included.  AddBlock
\* applies validated blocks only, so it never returns that error.
C9_ValidatedBlockApplies ==
    [][last'.op = "AddBlock" => last'.err # "could not find UTXO for input"]_vars

\* C2: the head has the maximum cumulative work among the indexed headers,
\* and a head is replaced only by a header of strictly greater work (among
\* headers of equal work the first one added stays the head).
MaxWorkHead == \A h \in DOMAIN headers : headers[h].CumulativeWork <= head.CumulativeWork

C2_HeadHasMaxWork ==
    [][/\ MaxWorkHead'
       /\ head' # head => head'.CumulativeWork > head.CumulativeWork]_vars

\* C3: for a block B accepted in UTXO set S, updateUTXOSet(B) followed by
\* rollbackUTXOSet(B) leaves the UTXO namespace equal to S and no undo record
\* for B.  B ranges over the blocks that extend the head of a reachable state.
ApplyThenRollbackRestores(b) ==
    LET v == ValidateBlock(Chain, b)
        u == updateUTXOSet(v.c, b)
        r == rollbackUTXOSet(u.c, b)
    IN (v.err = Ok /\ u.err = Ok) =>
          /\ r.err = Ok
          /\ r.c.store.utxo = store.utxo
          /\ BlockHash(b) \notin DOMAIN r.c.store.undo

C3_RollbackUndoesApply ==
    \A b \in MinedOn(head, Templates, TimeDeltas(head)) : ApplyThenRollbackRestores(b)

\* The stored blocks from genesis to hash, oldest first.
RECURSIVE Ancestry(_, _)
Ancestry(blocks, hash) ==
    IF hash \notin DOMAIN blocks THEN <<>>
    ELSE IF blocks[hash].Header.Height = 0 THEN <<blocks[hash]>>
    ELSE Append(Ancestry(blocks, blocks[hash].Header.PrevHash), blocks[hash])

AncestryHashes(blocks, hash) ==
    {BlockHash(Ancestry(blocks, hash)[i]) : i \in 1..Len(Ancestry(blocks, hash))}

\* Validates and applies chain[i], chain[i+1], ... in turn.
RECURSIVE ReplayFrom(_, _, _)
ReplayFrom(c, chain, i) ==
    IF i > Len(chain) THEN Result(c, Ok)
    ELSE LET v == ValidateBlock(c, chain[i])
         IN IF v.err # Ok THEN v
            ELSE LET u == updateUTXOSet(v.c, chain[i])
                 IN IF u.err # Ok THEN u ELSE ReplayFrom(u.c, chain, i + 1)

\* The chain obtained by applying, from genesis and an empty UTXO set,
\* exactly the blocks on the ancestry of hash.
Replay(blocks, hash) ==
    ReplayFrom([NewChain([EmptyStore EXCEPT !.blocks = blocks], -1)
                   EXCEPT !.headers = [h \in DOMAIN blocks |-> blocks[h].Header]],
               Ancestry(blocks, hash), 1)

\* Every stored block is valid on its own branch.
TreeValid == \A h \in DOMAIN store.blocks : Replay(store.blocks, h).err = Ok

HeavierForkBecomesHead(b) ==
    LET hash == BlockHash(b)
        nb == withCumulativeWork(Chain, b)
        branch == Replay(MapPut(store.blocks, hash, nb), hash)
        oldBranch == AncestryHashes(store.blocks, HeaderHash(head))
                        \ AncestryHashes(store.blocks, b.Header.PrevHash)
    IN (/\ TreeValid
        /\ hash \notin DOMAIN headers
        /\ b.Header.PrevHash \in DOMAIN headers
        /\ b.Header.PrevHash # HeaderHash(head)
        /\ branch.err = Ok
        /\ nb.Header.CumulativeWork > head.CumulativeWork)
       => /\ head' = nb.Header
          /\ store'.head = <<hash>>
          /\ store'.utxo = branch.c.store.utxo
          /\ \A h \in oldBranch : h \notin DOMAIN store'.undo

RECURSIVE RevalidatedOnApply(_, _, _, _)
RevalidatedOnApply(c, path, i, acc) ==
    IF i < 1 \/ path[i] \notin DOMAIN c.store.blocks THEN TRUE
    ELSE LET b == c.store.blocks[path[i]]
             r == updateUTXOSet(c, b)
         IN /\ path[i] \in acc => ValidateBlock(c, b).err = Ok
            /\ r.err = Ok => RevalidatedOnApply(r.c, path, i - 1, acc)

\* The applications AddBlock(b) performs, acc being the accepted blocks.
RevalidatedInAddBlock(b, acc) ==
    LET checked == addBlockCheck(Chain, b)
        indexed == addBlockIndex(checked.c, b)
        paths == reorgPaths(indexed.c, indexed.b)
        rolled == RollbackBlocks(indexed.c, paths.blocksToRollback, 1)
    IN checked.go =>
          /\ indexed.next = "extend" =>
                (BlockHash(b) \in acc => ValidateBlock(indexed.c, indexed.b).err = Ok)
          /\ (indexed.next = "reorg" /\ paths.err = Ok /\ rolled.err = Ok) =>
                RevalidatedOnApply(rolled.c, paths.blocksToApply,
                                   Len(paths.blocksToApply), acc)

C10_AcceptedBlockRevalidates ==
    [][last'.op = "AddBlock" => RevalidatedInAddBlock(last'.block, accepted')]_vars

\* C6: when the process stops between two writes of AddBlock and the chain
\* is reopened with NewBlockchain on the same store, the UTXO set and the
\* undo records in the store are those of the chain that ends at the block
\* the stored head marker names.
C6_CrashConsistent ==
    (last.op = "NewBlockchain" /\ Up) =>
        LET r == Replay(store.blocks, store.head[1])
        IN /\ store.utxo = r.c.store.utxo
           /\ store.undo = r.c.store.undo

\* C7: single writer: the miner loop's AddBlock and the P2P message loop's
\* AddBlock are never in progress at once, so no two blocks that extend the
\* same head are both applied to the UTXO set (an applied block is one that
\* has its undo record).
C7_SingleWriter ==
    /\ \E w \in Writers : writers[w].pc = "idle"
    /\ \A g, h \in DOMAIN store.undo \cap DOMAIN store.blocks :
          store.blocks[g].Header.PrevHash = store.blocks[h].Header.PrevHash => g = h

\* C8: snapshot reads: a reader that observes head T observes the UTXO set
\* of exactly the blocks on T's ancestry, never the effects of a block that
\* is not yet the head nor a partially applied or rolled-back branch.
C8_SnapshotRead ==
    view.utxo = Replay(store.blocks, HeaderHash(view.head)).c.store.utxo

\* The transactions a user can submit against the outputs of the model.
UserTxs == {PayTx, RivalTx, DupInputTx, SpendRewardTx, InsufficientFundsTx}

\* The keys of the outputs spent by the blocks on the head's ancestry.
SpentOnMain ==
    UNION {{getUTXOKey(in.PrevTxHash, in.PrevOutIndex) :
               in \in {SpendList(b.Transactions, 1)[i] :
                          i \in 1..Len(SpendList(b.Transactions, 1))}} :
           b \in {Ancestry(store.blocks, HeaderHash(head))[n] :
                     n \in 1..Len(Ancestry(store.blocks, HeaderHash(head)))}}

Respends(tx) ==
    \E i \in 1..Len(tx.Inputs) :
        getUTXOKey(tx.Inputs[i].PrevTxHash, tx.Inputs[i].PrevOutIndex) \in SpentOnMain

\* r, the result of an AddBlock call on Chain, is an error that left the
\* UTXO set, the undo records, the head and the head marker as they were.
FailedUntouched(r) ==
    /\ r.err # Ok
    /\ r.c.store.utxo = store.utxo
    /\ r.c.store.undo = store.undo
    /\ r.c.store.head = store.head
    /\ r.c.head = head

\* C11: double-spend rejection: once a block spending output u is on the
\* main chain, ValidateTransaction of a transaction with an input
\* referencing u returns an error, and AddBlock of a block extending the
\* head that contains such a transaction fails and leaves the UTXO set, the
\* undo records, the head and the head marker unchanged.
C11_DoubleSpendRejected ==
    \A tx \in UserTxs :
        Respends(tx) =>
            /\ ValidateTransaction(Chain, tx) # Ok
            /\ \A b \in MinedOn(head, {[miner |-> "Y", txs |-> <<tx>>]}, {TargetBlockTime}) :
                   FailedUntouched(AddBlock(Chain, b))

\* The header rules, stated on the header h of a block with transactions
\* txs and on the header parent of its parent.
FollowsParent(h, parent, txs) ==
    /\ h.Height = parent.Height + 1
    /\ <<h.Difficulty, h.EMABlockTime>> = CalculateNextDifficulty(parent, h.Timestamp)
    /\ HashInt(h) < Target(h.Difficulty)
    /\ Len(txs) > 0
    /\ h.MerkleRoot = MerkleRoot(txs)

\* b keeps every header rule with respect to the chain <<store, headers>>.
KeepsHeaderRules(b) ==
    /\ b.Header.PrevHash \in DOMAIN headers \cup DOMAIN store.blocks
    /\ FollowsParent(b.Header,
                     IF b.Header.PrevHash \in DOMAIN headers
                     THEN headers[b.Header.PrevHash]
                     ELSE store.blocks[b.Header.PrevHash].Header,
                     b.Transactions)

\* C12: every indexed header other than genesis has its parent in the index
\* or the block store and keeps the height, difficulty, EMA, proof-of-work
\* and Merkle-root rules; a block that breaks one of them is rejected by
\* ValidateBlock.
C12_IndexedHeadersKeepRules ==
    /\ \A x \in DOMAIN headers :
          headers[x].Height # 0 =>
             /\ x \in DOMAIN store.blocks
             /\ store.blocks[x].Header = headers[x]
             /\ KeepsHeaderRules(store.blocks[x])
    /\ \A b \in MinerBlocks \cup PeerBlocks :
          ~KeepsHeaderRules(b) => ValidateBlock(Chain, b).err # Ok

\* A header that breaks a rule was offered and rejected, and a header that
\* is not genesis is indexed.
C12_Witness ==
    /\ last.op = "AddBlock" /\ last.err = "invalid difficulty"
    /\ \E x \in DOMAIN headers : headers[x].Height = 1

\* C13: a block rejected by ValidateBlock leaves the chain state unchanged:
\* ValidateBlock writes nothing to the store, and when ValidateBlock(b)
\* fails, AddBlock(b) returns an error, writes no block, UTXO, undo or
\* head-marker key and does not change the head.
C13_RejectedBlockWritesNothing ==
    [][last'.op = "AddBlock" =>
          /\ ValidateBlock(Chain, last'.block).c.store = store
          /\ (/\ BlockHash(last'.block) \notin DOMAIN headers
              /\ ValidateBlock(Chain, last'.block).err # Ok)
             => /\ last'.err = ValidateBlock(Chain, last'.block).err
                /\ store' = store
                /\ head' = head]_vars

\* AddBlock has returned the error of a block with an invalid Merkle root,
\* on a chain that has grown.
C13_Witness ==
    /\ last.op = "AddBlock" /\ last.err = "invalid merkle root"
    /\ head.Height = 1

\* The output an input references in the UTXO set.
Referenced(in) == store.utxo[getUTXOKey(in.PrevTxHash, in.PrevOutIndex)]

\* C14: ValidateTransaction accepts a non-coinbase transaction only if every
\* input's public key derives the address of the output the input spends.
C14_InputsSignedByOwner ==
    \A tx \in UserTxs :
        ValidateTransaction(Chain, tx) = Ok =>
            \A i \in 1..Len(tx.Inputs) :
                AddressOf(tx.Inputs[i].PublicKey) = Referenced(tx.Inputs[i]).Address

RECURSIVE InputValue(_, _)
InputValue(tx, i) ==
    IF i > Len(tx.Inputs) THEN 0
    ELSE Referenced(tx.Inputs[i]).Value + InputValue(tx, i + 1)

RECURSIVE OutputValue(_, _)
OutputValue(tx, i) ==
    IF i > Len(tx.Outputs) THEN 0 ELSE tx.Outputs[i].Value + OutputValue(tx, i + 1)

\* C15: ValidateTransaction rejects every non-coinbase transaction whose
\* outputs are worth more than the outputs its inputs reference.
C15_NoValueCreated ==
    \A tx \in UserTxs :
        ValidateTransaction(Chain, tx) = Ok => OutputValue(tx, 1) <= InputValue(tx, 1)

\* The outputs referenced by the non-coinbase inputs of b, and the outputs
\* of the transactions of b, as sets of keys.
SpentKeys(b) ==
    {getUTXOKey(SpendList(b.Transactions, 1)[i].PrevTxHash,
                SpendList(b.Transactions, 1)[i].PrevOutIndex) :
        i \in 1..Len(SpendList(b.Transactions, 1))}

CreatedKeys(b) ==
    {OutputList(b.Transactions, 1)[i].key : i \in 1..Len(OutputList(b.Transactions, 1))}

CreatedOutput(b, key) ==
    OutputList(b.Transactions, 1)[
        CHOOSE i \in 1..Len(OutputList(b.Transactions, 1)) :
            OutputList(b.Transactions, 1)[i].key = key].out

\* utxo minus the outputs b spends plus the outputs b creates.
MinusSpentPlusCreated(utxo, b) ==
    [key \in (DOMAIN utxo \ SpentKeys(b)) \cup CreatedKeys(b) |->
        IF key \in CreatedKeys(b) THEN CreatedOutput(b, key) ELSE utxo[key]]

\* The outputs b spends, as they are in utxo, in input order.
SpentInOrder(utxo, b) ==
    [i \in 1..Len(SpendList(b.Transactions, 1)) |->
        [TxHash |-> SpendList(b.Transactions, 1)[i].PrevTxHash,
         Index |-> SpendList(b.Transactions, 1)[i].PrevOutIndex,
         Output |-> utxo[getUTXOKey(SpendList(b.Transactions, 1)[i].PrevTxHash,
                                    SpendList(b.Transactions, 1)[i].PrevOutIndex)]]]

\* C16: straight extension: when AddBlock(b) returns nil for a block, not
\* yet indexed, whose prev-hash is the head's hash, then on return Head() is
\* b's header, the head marker is b's hash, the UTXO set is the previous one
\* minus the outputs referenced by b's non-coinbase inputs plus the outputs
\* of b's transactions, and b's undo record lists the spent outputs in input
\* order.
C16_StraightExtension ==
    [][(/\ last'.op = "AddBlock" /\ last'.err = Ok
        /\ BlockHash(last'.block) \notin DOMAIN headers
        /\ last'.block.Header.PrevHash = HeaderHash(head))
       => /\ head' = withCumulativeWork(Chain, last'.block).Header
          /\ store'.head = <<BlockHash(last'.block)>>
          /\ store'.utxo = MinusSpentPlusCreated(store.utxo, last'.block)
          /\ BlockHash(last'.block) \in DOMAIN store'.undo
          /\ store'.undo[BlockHash(last'.block)] = SpentInOrder(store.utxo, last'.block)]_vars

\* A block that spends an output has extended a chain without side blocks.
C16_Witness ==
    /\ last.op = "AddBlock" /\ last.err = Ok
    /\ Len(last.block.Transactions) = 2
    /\ HeaderHash(head) = BlockHash(last.block)
    /\ head.Height = 2
    /\ Cardinality(DOMAIN store.blocks) = 3

\* full is the result of an operation started on store0 and part the result
\* of the same operation stopped after some of its effects: if part has
\* written the head marker, the operation succeeds and part already holds
\* every UTXO and undo write of it; if the operation fails, it has not
\* written the head marker.
MarkerWrittenLast(store0, part, full) ==
    /\ part.c.store.head # store0.head =>
          /\ full.err = Ok
          /\ part.c.store.utxo = full.c.store.utxo
          /\ part.c.store.undo = full.c.store.undo
    /\ full.err # Ok => full.c.store.head = store0.head

StoredHeaders == [x \in DOMAIN store.blocks |-> store.blocks[x].Header]

\* r and q are the same outcome of a call.
SameOutcome(r, q) == r.err = q.err /\ r.c.store = q.c.store /\ r.c.head = q.c.head

\* C18: after NewBlockchain has opened a store that holds a head marker, the
\* header index holds the header of every stored block, and AddBlock of a
\* block a peer sends ends as it does with the complete header index.
C18_HeaderIndexRebuilt ==
    (last.op = "NewBlockchain" /\ Up) =>
        /\ \A x \in DOMAIN store.blocks : x \in DOMAIN headers
        /\ \A b \in PeerBlocks :
              SameOutcome(AddBlock(Chain, b),
                          AddBlock([Chain EXCEPT !.headers = StoredHeaders], b))

\* C19: AddBlock(b) for a block whose hash is already in the header index
\* returns nil and changes nothing: block store, UTXO set, undo records,
\* head marker, header index and head stay as they are.
C19_DuplicateBlockIsNoOp ==
    [][(last'.op = "AddBlock" /\ BlockHash(last'.block) \in DOMAIN headers)
       => (last'.err = Ok /\ ChainState' = ChainState)]_vars

\* AddBlock has returned nil for a block that is indexed and that no call
\* accepted as a new block: the call returned at the duplicate check.
C19_Witness ==
    /\ last.op = "AddBlock" /\ last.err = Ok
    /\ BlockHash(last.block) \in DOMAIN headers
    /\ BlockHash(last.block) \notin accepted

\* AddBlock is given b, a block not yet indexed that does not extend the
\* head and whose cumulative work is at most the head's.
WeakerFork(b) ==
    /\ BlockHash(b) \notin DOMAIN headers
    /\ b.Header.PrevHash \in DOMAIN headers
    /\ b.Header.PrevHash # HeaderHash(head)
    /\ withCumulativeWork(Chain, b).Header.CumulativeWork <= head.CumulativeWork

\* C20: when AddBlock accepts a fork block whose prev-hash is not the head
\* and whose cumulative work is at most the head's, the block is persisted
\* and its header indexed, and the UTXO set, the undo records, the head and
\* the head marker are unchanged.
C20_WeakerForkIsKept ==
    [][(last'.op = "AddBlock" /\ last'.err = Ok /\ WeakerFork(last'.block))
       => /\ BlockHash(last'.block) \in DOMAIN store'.blocks
          /\ store'.blocks[BlockHash(last'.block)] = withCumulativeWork(Chain, last'.block)
          /\ BlockHash(last'.block) \in DOMAIN headers'
          /\ headers'[BlockHash(last'.block)] =
                withCumulativeWork(Chain, last'.block).Header
          /\ store'.utxo = store.utxo
          /\ store'.undo = store.undo
          /\ store'.head = store.head
          /\ head' = head]_vars

\* AddBlock has accepted a block that is stored and indexed beside the main
\* chain: it is not the head and was never applied.
C20_Witness ==
    /\ last.op = "AddBlock" /\ last.err = Ok
    /\ BlockHash(last.block) \in accepted
    /\ BlockHash(last.block) \in DOMAIN store.blocks \cap DOMAIN headers
    /\ BlockHash(last.block) \notin DOMAIN store.undo
    /\ BlockHash(last.block) # HeaderHash(head)
    /\ store.blocks[BlockHash(last.block)].Header.CumulativeWork <= head.CumulativeWork

\* ---- C21
\* Values a submitter can place in a block's CumulativeWork field.
SubmittedWork == {0, 1, 1000}

\* work = 2^bits / (2^(bits - difficulty) + 1), integer division.
WorkOfDifficulty(difficulty) == HashSpace \div (Pow2(HashBits - difficulty) + 1)

\* C21: every non-genesis header of the header index carries its parent's
\* cumulative work plus work(header), genesis carries 0, the block store holds
\* the same value, and AddBlock of a block gives the same chain and the same
\* error whatever cumulative work its submitter wrote in it.
C21_CumulativeWorkIsComputed ==
    /\ \A hash \in DOMAIN headers :
          /\ IF headers[hash].Height = 0 THEN headers[hash].CumulativeWork = 0
             ELSE /\ headers[hash].PrevHash \in DOMAIN headers
                  /\ headers[hash].CumulativeWork =
                        headers[headers[hash].PrevHash].CumulativeWork
                            + WorkOfDifficulty(headers[hash].Difficulty)
          /\ hash \in DOMAIN store.blocks
          /\ store.blocks[hash].Header.CumulativeWork = headers[hash].CumulativeWork
    /\ \A b \in MinerBlocks \cup PeerBlocks : \A w \in SubmittedWork :
          AddBlock(Chain, [b EXCEPT !.Header.CumulativeWork = w]) = AddBlock(Chain, b)

\* A block of height 2 is indexed with twice the work of one block, and a
\* peer holds a fork block heavier than the head if its own field counted.
C21_Witness ==
    /\ \E hash \in DOMAIN headers :
          /\ headers[hash].Height = 2
          /\ headers[hash].CumulativeWork = 2 * WorkOfDifficulty(InitialDifficulty)
    /\ \E b \in PeerBlocks :
          /\ b.Header.PrevHash # HeaderHash(head)
          /\ AddBlock(Chain, [b EXCEPT !.Header.CumulativeWork = 1000]).err = Ok
          /\ AddBlock(Chain, [b EXCEPT !.Header.CumulativeWork = 1000]).c.head = head

\* ---- the miner loop on headers alone
\* Miner.loop without the chain behind it: createNewBlock builds a header on
\* the head it is given, ProofOfWork.Run mines it, and the mined header is
\* the next head.  The first head is any header a chain can hand to
\* CalculateNextDifficulty: genesis or not, of any difficulty, with any
\* EMABlockTime, and the clock may step backwards between two blocks.
StartDifficulties == {0, 1, 2, 3, HashBits - 1}
StartEMAs == {-30, 5, 11, 12, TargetBlockTime, 22, 23, 40}
ClockSteps == {-200, -20, 0, 5, TargetBlockTime, 60, 300}

StartHeaders ==
    {NewHeader(IF height = 0 THEN ZeroHash ELSE HeaderHash(GenesisHeader(d)),
               height, MerkleRoot(<<CoinbaseTx(MinerAddress(LocalMiner))>>),
               GenesisTimestamp, d, 0, ema, 0) :
        height \in {0, 1}, d \in StartDifficulties, ema \in StartEMAs}

InitMiner ==
    /\ store = EmptyStore
    /\ headers = <<>>
    /\ head \in StartHeaders
    /\ last = [op |-> "Head", block |-> NewBlock(head, <<>>), err |-> Ok]
    /\ accepted = {}
    /\ writers = [w \in Writers |-> [pc |-> "idle", block |-> NewBlock(head, <<>>)]]
    /\ view = [head |-> head, utxo |-> <<>>]
    /\ NetIdle

\* Miner.createNewBlock on head, at a clock reading newTimestamp.
MinerCreateNewBlock ==
    /\ last.op # "createNewBlock"
    /\ head.Height < MaxMinerHeight
    /\ \E dt \in ClockSteps :
          last' = [op |-> "createNewBlock",
                   block |-> createNewBlock(head, MinerAddress(LocalMiner), <<>>,
                                            head.Timestamp + dt),
                   err |-> Ok]
    /\ UNCHANGED <<store, headers, head, accepted, writers, view, netvars>>

\* ProofOfWork.Run on the block just created, when the search ends.
MinerRun ==
    /\ last.op = "createNewBlock"
    /\ PowRun(last.block.Header) <= MaxNonce
    /\ head' = Mined(last.block).Header
    /\ last' = [op |-> "Run", block |-> Mined(last.block), err |-> Ok]
    /\ UNCHANGED <<store, headers, accepted, writers, view, netvars>>

NextMiner == MinerCreateNewBlock \/ MinerRun

SpecMiner == InitMiner /\ [][NextMiner]_vars

\* ---- C22
\* The controller as the specification words it.
ReferenceEMA(parent, ts) ==
    LET n == 95 * (ts - parent.Timestamp) + 905 * parent.EMABlockTime
    IN IF n >= 0 THEN n \div 1000 ELSE -((-n) \div 1000)

ReferenceController(parent, ts) ==
    IF parent.Height = 0 THEN <<parent.Difficulty, parent.EMABlockTime>>
    ELSE <<IF 4 * ReferenceEMA(parent, ts) < 3 * TargetBlockTime
              THEN parent.Difficulty + 1
           ELSE IF 2 * ReferenceEMA(parent, ts) > 3 * TargetBlockTime
              THEN (IF parent.Difficulty - 1 > 1 THEN parent.Difficulty - 1 ELSE 1)
           ELSE parent.Difficulty,
           ReferenceEMA(parent, ts)>>

\* C22: for every head and every timestamp, before the head's or after it,
\* CalculateNextDifficulty gives the difficulty and the EMA of the reference
\* controller, the difficulty is within 1 of the parent's, and the header
\* createNewBlock builds carries both.
C22_ControllerMatchesReference ==
    /\ \A dt \in ClockSteps :
          /\ CalculateNextDifficulty(head, head.Timestamp + dt)
                = ReferenceController(head, head.Timestamp + dt)
          /\ CalculateNextDifficulty(head, head.Timestamp + dt)[1] - head.Difficulty
                \in {-1, 0, 1}
    /\ last.op = "createNewBlock" =>
          <<last.block.Header.Difficulty, last.block.Header.EMABlockTime>>
             = ReferenceController(head, last.block.Header.Timestamp)

\* createNewBlock has built a header on a non-genesis head with a clock that
\* stepped back far enough for the new EMA to be negative and not a whole
\* number before truncation, and the difficulty went up.
C22_Witness ==
    /\ last.op = "createNewBlock"
    /\ head.Height > 0
    /\ last.block.Header.Timestamp < head.Timestamp
    /\ last.block.Header.EMABlockTime < 0
    /\ (95 * (last.block.Header.Timestamp - head.Timestamp)
            + 905 * head.EMABlockTime) % 1000 # 0
    /\ last.block.Header.Difficulty = head.Difficulty + 1

\* ---- the node started with any configured initial difficulty
\* ChainConfig.InitialDifficulty is read from the configuration file as an
\* unsigned integer and handed to NewBlockchain as it is (0 when the file
\* does not name it).
ConfiguredDifficulties == {0, 1, InitialDifficulty, HashBits + 1}

InitConfig ==
    \E d \in ConfiguredDifficulties :
       /\ store = NewBlockchain(EmptyStore, d, -1).c.store
       /\ headers = NewBlockchain(EmptyStore, d, -1).c.headers
       /\ head = NewBlockchain(EmptyStore, d, -1).c.head
       /\ last = [op |-> "NewBlockchain", block |-> CreateGenesisBlock(d),
                  err |-> NewBlockchain(EmptyStore, d, -1).err]
       /\ accepted = {BlockHash(CreateGenesisBlock(d))}
       /\ writers = [w \in Writers |-> [pc |-> "idle", block |-> CreateGenesisBlock(d)]]
       /\ view = [head |-> NewBlockchain(EmptyStore, d, -1).c.head,
                  utxo |-> NewBlockchain(EmptyStore, d, -1).c.store.utxo]
       /\ NetIdle

SpecConfig == InitConfig /\ [][NextShort]_vars

\* ---- C23
\* C23: every header of the chain, genesis included and whatever the
\* configured initial difficulty, has a difficulty from 1 to one less than the
\* number of hash bits, and every block above genesis contributes work of at
\* least 1.
C23_DifficultyInRange ==
    \A hash \in DOMAIN headers :
       /\ headers[hash].Difficulty \in 1..(HashBits - 1)
       /\ headers[hash].Height > 0 => Work(headers[hash]) >= 1

\* ---- the node stopped and started again
\* The process ends between two calls of AddBlock (os.Exit, a signal) or
\* inside one, and main opens the store it left with NewBlockchain.
RestartRoom == Cardinality(DOMAIN store.blocks) <= MaxRestartBlocks

Stop ==
    /\ Up /\ Idle
    /\ head' = Nil
    /\ headers' = <<>>
    /\ last' = [op |-> "stop", block |-> last.block, err |-> Ok]
    /\ UNCHANGED <<store, accepted, writers, view, netvars>>

NextRestart ==
    \/ RestartRoom /\ MinerAddBlock
    \/ RestartRoom /\ PeerAddBlock
    \/ RestartRoom /\ CrashInAddBlock
    \/ Stop
    \/ Reopen

SpecRestart == Init /\ [][NextRestart]_vars

\* ---- C24
\* What NewBlockchain returns when it has created genesis.
GenesisOpened(r, d) ==
    /\ r.err = Ok
    /\ r.c.head = CreateGenesisBlock(d).Header
    /\ r.c.head.Height = 0
    /\ IsZero(r.c.head.PrevHash)
    /\ r.c.store.head = <<BlockHash(CreateGenesisBlock(d))>>
    /\ DOMAIN r.c.store.utxo = {<<TxHash(GenesisCoinbase), 0>>}
    /\ r.c.store.utxo[<<TxHash(GenesisCoinbase), 0>>] = TxOut(1000, ZeroAddress)

\* C24: on a store without head marker (empty, or left by a start that was
\* interrupted before the marker) NewBlockchain returns the genesis chain:
\* head of height 0 with zero prev-hash, the marker naming genesis, and the
\* one UTXO (genesis coinbase, 0) of value 1000 at the zero address.  On a
\* store with a head marker it changes nothing in the store and returns a
\* chain whose head is the header of the block the marker names, whatever
\* initial difficulty it is given.
C24_NewBlockchainOpensStore ==
    /\ \A d \in ConfiguredDifficulties : \A k \in 0..MaxCrashStep :
          NewBlockchain(EmptyStore, d, k).c.store.head = <<>> =>
             GenesisOpened(NewBlockchain(NewBlockchain(EmptyStore, d, k).c.store, d, -1), d)
    /\ store.head # <<>> =>
          \A d \in ConfiguredDifficulties :
             /\ NewBlockchain(store, d, -1).err = Ok
             /\ NewBlockchain(store, d, -1).c.store = store
             /\ NewBlockchain(store, d, -1).c.head = store.blocks[store.head[1]].Header
    /\ (last.op = "NewBlockchain" /\ headers # <<>>) =>
          GenesisOpened([c |-> Chain, err |-> last.err], InitialDifficulty)
    /\ (last.op = "NewBlockchain" /\ Up) => head = store.blocks[store.head[1]].Header

\* The node was started again on a store whose marker names a block of
\* height 1.
C24_Witness ==
    /\ last.op = "NewBlockchain"
    /\ Up
    /\ head.Height = 1
    /\ headers = <<>>
    /\ store.head = <<HeaderHash(head)>>

\* ---- C25
\* The hashes GetBlocksFrom is asked for: every stored block's, and hashes
\* of no stored block.
FromHashes == DOMAIN store.blocks \cup {ZeroHash, HeaderHash(UnknownParent)}

OnMainChain(h) == h \in AncestryHashes(store.blocks, HeaderHash(head))

\* C25: for the hash of a main-chain block GetBlocksFrom returns, without
\* error, the stored blocks from that block to the head, each one's prev-hash
\* the hash of the one before it; for any other hash, a stored fork block's
\* included, it returns an error and no list.
C25_GetBlocksFrom ==
    \A h \in FromHashes :
       IF OnMainChain(h)
       THEN /\ GetBlocksFrom(Chain, h).err = Ok
            /\ Len(GetBlocksFrom(Chain, h).blocks) >= 1
            /\ BlockHash(GetBlocksFrom(Chain, h).blocks[1]) = h
            /\ BlockHash(GetBlocksFrom(Chain, h).blocks[Len(GetBlocksFrom(Chain, h).blocks)])
                  = HeaderHash(head)
            /\ \A i \in 1..Len(GetBlocksFrom(Chain, h).blocks) :
                  /\ GetBlocksFrom(Chain, h).blocks[i]
                        = store.blocks[BlockHash(GetBlocksFrom(Chain, h).blocks[i])]
                  /\ i > 1 => GetBlocksFrom(Chain, h).blocks[i].Header.PrevHash
                                 = BlockHash(GetBlocksFrom(Chain, h).blocks[i - 1])
       ELSE /\ GetBlocksFrom(Chain, h).err # Ok
            /\ GetBlocksFrom(Chain, h).blocks = <<>>

\* The head is above genesis, the store holds a fork block next to it, and
\* the list from genesis has the two main-chain blocks.
C25_Witness ==
    /\ head.Height = 1
    /\ \E h \in DOMAIN store.blocks :
          /\ ~OnMainChain(h)
          /\ store.blocks[h].Header.PrevHash = head.PrevHash
          /\ GetBlocksFrom(Chain, h).err = "fromHash not found in chain"
    /\ Len(GetBlocksFrom(Chain, head.PrevHash).blocks) = 2

\* ---- C30
\* C30: when ProofOfWork.Run has returned nonce n for a header, the header
\* carries n, its digest read as an integer is strictly below
\* 2^(bits - difficulty), no nonce below n gives a digest below that target,
\* and Validate accepts the block.
C30_RunFindsFirstNonce ==
    last.op = "Run" =>
       /\ HashInt(last.block.Header) < Pow2(HashBits - last.block.Header.Difficulty)
       /\ \A m \in 0..(last.block.Header.Nonce - 1) :
             HashInt([last.block.Header EXCEPT !.Nonce = m])
                >= Pow2(HashBits - last.block.Header.Difficulty)
       /\ head = last.block.Header
       /\ PowValidate(last.block.Header)

\* Run has returned a nonce above 2 for a header of difficulty 3 or more.
C30_Witness ==
    /\ last.op = "Run"
    /\ last.block.Header.Nonce > 2
    /\ last.block.Header.Difficulty >= 3

\* ---- the mining node with its mempool
\* Transactions handed to Mempool.Add, by the API or in a MessageTypeTx.
SubmittedTxs == {PayTx, RivalTx, SpendRewardTx}

\* Mempool.Add without its capacity check.
MempoolAddUnbounded(c, p, tx) ==
    IF tx \in p THEN [pool |-> p, err |-> "transaction already in mempool"]
    ELSE IF ValidateTransaction(c, tx) # Ok
         THEN [pool |-> p, err |-> ValidateTransaction(c, tx)]
         ELSE [pool |-> p \cup {tx}, err |-> Ok]

\* Mempool.Add(tx): r.pool the pool after the call, r.err the error.
MempoolAdd(c, p, tx) ==
    IF Cardinality(p) >= MempoolSize THEN [pool |-> p, err |-> "mempool is full"]
    ELSE IF tx \in p THEN [pool |-> p, err |-> "transaction already in mempool"]
    ELSE IF ValidateTransaction(c, tx) # Ok
         THEN [pool |-> p, err |-> ValidateTransaction(c, tx)]
         ELSE [pool |-> p \cup {tx}, err |-> Ok]

\* Mempool.GetTransactions(max): the first max transactions of an iteration
\* over the pool, a Go map, whose order is not fixed.
GetTransactions(p, max) ==
    {txs \in [1..(IF Cardinality(p) < max THEN Cardinality(p) ELSE max) -> p] :
        \A i, j \in DOMAIN txs : i # j => txs[i] # txs[j]}

\* Mempool.Remove for each transaction of a block.
MempoolRemove(p, txs) == p \ {txs[i] : i \in 1..Len(txs)}

SubmitTx ==
    /\ Up /\ Idle
    /\ \E tx \in SubmittedTxs :
          /\ MempoolAdd(Chain, pool, tx).err = Ok
          /\ pool' = MempoolAdd(Chain, pool, tx).pool
    /\ UNCHANGED <<store, headers, head, last, accepted, writers, view,
                   peer, conn, wire, msgCh, limiter, blacklist>>

\* Miner.loop: createNewBlock with the mempool's transactions, Run,
\* AddBlock, BroadcastBlock (to no peer here).  The mempool is not touched.
MinerLoop ==
    /\ Up /\ Idle /\ ShortChain
    /\ \E txs \in GetTransactions(pool, MaxBlockSize) :
          \E b \in MinedOn(head, {[miner |-> LocalMiner, txs |-> txs]}, {TargetBlockTime}) :
             Call(b)

\* Server.ProcessMessages, MessageTypeBlock: AddBlock, and when it returns
\* nil the block's transactions are removed from the mempool.
ProcessBlockMessage ==
    /\ Up /\ Idle /\ ShortChain
    /\ \E b \in PeerBlocks :
          /\ SetChain(AddBlock(Chain, b).c)
          /\ Return(b, AddBlock(Chain, b).err, BlockHash(b) \notin DOMAIN headers)
          /\ pool' = IF AddBlock(Chain, b).err = Ok
                     THEN MempoolRemove(pool, b.Transactions) ELSE pool
    /\ UNCHANGED <<writers, view, peer, conn, wire, msgCh, limiter, blacklist>>

NextPool == SubmitTx \/ MinerLoop \/ ProcessBlockMessage

SpecPool == Init /\ [][NextPool]_vars

\* tx is in a block of the main chain.
Confirmed(tx) ==
    \E i \in 1..Len(Ancestry(store.blocks, HeaderHash(head))) :
       \E j \in 1..Len(Ancestry(store.blocks, HeaderHash(head))[i].Transactions) :
          Ancestry(store.blocks, HeaderHash(head))[i].Transactions[j] = tx

\* ---- C28
\* The blocks Miner.loop can hand to AddBlock in the current state.
MinerAttempts ==
    UNION {MinedOn(head, {[miner |-> LocalMiner, txs |-> txs]}, {TargetBlockTime}) :
             txs \in GetTransactions(pool, MaxBlockSize)}

\* C28: the miner loop is never stuck and never leaves a transaction behind:
\* in every state some block it can build from its mempool is accepted by
\* AddBlock and becomes the head, and every transaction of the mempool is in
\* a block of the main chain after one of its successful attempts.  (A
\* failed validation changes neither the chain nor the mempool, so a state
\* where every attempt fails is one the miner never leaves by itself.)
C28_MinerNeverStuck ==
    ShortChain =>
       /\ \E b \in MinerAttempts :
             /\ AddBlock(Chain, b).err = Ok
             /\ HeaderHash(AddBlock(Chain, b).c.head) = BlockHash(b)
       /\ \A tx \in pool :
             \E b \in MinerAttempts :
                /\ AddBlock(Chain, b).err = Ok
                /\ \E j \in 1..Len(b.Transactions) : b.Transactions[j] = tx

\* ---- C29
\* C29: no transaction of the mempool is in a block of the main chain.
C29_MempoolHoldsUnconfirmed == \A tx \in pool : ~Confirmed(tx)

\* ---- two nodes and the connection between them
\* The node and a peer run the same program.  Each mines on its own chain
\* while they are apart; then one of them connects to the other, both
\* exchange handshakes, and each runs handleHandshake, readLoop and
\* ProcessMessages on its side of the connection.
Other(s) == IF s = "node" THEN "peer" ELSE "node"

ChainOf(s) == IF s = "node" THEN Chain ELSE peer

\* HandshakePayload of side s: Height and HeadHash of Head().
Hello(s) == [Height |-> ChainOf(s).head.Height, HeadHash |-> HeaderHash(ChainOf(s).head)]

GetBlocksMsg(from) == [type |-> "GetBlocks", from |-> from]
BlockMsgs(blocks) == [i \in 1..Len(blocks) |-> [type |-> "Block", block |-> blocks[i]]]

\* How the node's chain stands to the peer's when they connect.
Scenario ==
    IF peer.head.Height <= head.Height THEN "other"
    ELSE IF HeaderHash(head) \in AncestryHashes(peer.store.blocks, HeaderHash(peer.head))
         THEN "extends"
         ELSE IF peer.head.CumulativeWork > head.CumulativeWork THEN "fork" ELSE "other"

InitNet ==
    /\ store = NewBlockchain(EmptyStore, InitialDifficulty, -1).c.store
    /\ headers = NewBlockchain(EmptyStore, InitialDifficulty, -1).c.headers
    /\ head = NewBlockchain(EmptyStore, InitialDifficulty, -1).c.head
    /\ last = [op |-> "NewBlockchain", block |-> CreateGenesisBlock(InitialDifficulty),
               err |-> Ok]
    /\ accepted = {BlockHash(CreateGenesisBlock(InitialDifficulty))}
    /\ writers = [w \in Writers |->
                    [pc |-> "idle", block |-> CreateGenesisBlock(InitialDifficulty)]]
    /\ view = [head |-> head, utxo |-> store.utxo]
    /\ pool = {}
    /\ peer = [NewBlockchain(EmptyStore, InitialDifficulty, -1).c EXCEPT !.steps = 0]
    /\ conn = NoConn
    /\ wire = [s \in Sides |-> <<>>]
    /\ msgCh = [s \in Sides |-> <<>>]
    /\ limiter = [s \in Sides |-> [tokens |-> BucketSize, pc |-> "off"]]
    /\ blacklist = {}

\* Miner.loop on the node, no peer connected.
NodeMines ==
    /\ conn.state = "none"
    /\ head.Height < MaxNodeBlocks
    /\ \E b \in MinedOn(head, {[miner |-> LocalMiner, txs |-> <<>>]}, {TargetBlockTime}) :
          Call(b)

\* Miner.loop on the peer, no node connected.
PeerMines ==
    /\ conn.state = "none"
    /\ peer.head.Height < MaxPeerBlocks
    /\ \E b \in MinedOn(peer.head, {[miner |-> "Y", txs |-> <<>>]}, {TargetBlockTime}) :
          peer' = [AddBlock(peer, b).c EXCEPT !.steps = 0]
    /\ UNCHANGED <<store, headers, head, last, accepted, writers, view,
                   pool, conn, wire, msgCh, limiter, blacklist>>

\* Server.Connect on side s and handleConnection on the other: a Peer with a
\* full RateLimiter on each side, and the two handshake payloads exchanged.
Connect(s) ==
    /\ conn.state = "none"
    /\ conn' = [state |-> "open", initiator |-> s, scenario |-> Scenario,
                hello |-> [x \in Sides |-> Hello(x)], handled |-> {}]
    /\ limiter' = [x \in Sides |-> [tokens |-> BucketSize, pc |-> "off"]]
    /\ UNCHANGED <<store, headers, head, last, accepted, writers, view,
                   pool, peer, wire, msgCh, blacklist>>

\* handleHandshake on side s with the other side's payload, and what its
\* caller does with the result: on an error the connection is closed (and
\* the responder blacklists the other side), otherwise readLoop starts.
HandleHandshake(s) ==
    /\ conn.state = "open"
    /\ s \notin conn.handled
    /\ IF conn.hello[Other(s)].Height > ChainOf(s).head.Height
       THEN /\ wire' = [wire EXCEPT ![Other(s)] =
                           Append(@, GetBlocksMsg(HeaderHash(ChainOf(s).head)))]
            /\ conn' = [conn EXCEPT !.handled = @ \cup {s}]
            /\ limiter' = [limiter EXCEPT ![s].pc = "allow"]
            /\ UNCHANGED blacklist
       ELSE IF conn.hello[Other(s)].Height < ChainOf(s).head.Height
       THEN IF GetBlocksFrom(ChainOf(s), conn.hello[Other(s)].HeadHash).err # Ok
            THEN /\ conn' = [conn EXCEPT !.state = "closed", !.handled = @ \cup {s}]
                 /\ blacklist' = IF s # conn.initiator
                                 THEN blacklist \cup {Other(s)} ELSE blacklist
                 /\ limiter' = [limiter EXCEPT ![s].pc = "gone"]
                 /\ UNCHANGED wire
            ELSE /\ wire' = [wire EXCEPT ![Other(s)] =
                                @ \o BlockMsgs(GetBlocksFrom(ChainOf(s),
                                          conn.hello[Other(s)].HeadHash).blocks)]
                 /\ conn' = [conn EXCEPT !.handled = @ \cup {s}]
                 /\ limiter' = [limiter EXCEPT ![s].pc = "allow"]
                 /\ UNCHANGED blacklist
       ELSE /\ conn' = [conn EXCEPT !.handled = @ \cup {s}]
            /\ limiter' = [limiter EXCEPT ![s].pc = "allow"]
            /\ UNCHANGED <<wire, blacklist>>
    /\ UNCHANGED <<store, headers, head, last, accepted, writers, view,
                   pool, peer, msgCh>>

\* RateLimiter.Allow at the top of readLoop on side s.  The tokens added are
\* those of the time since the last refill, which can be any, none included;
\* without a token the other side is blacklisted and the connection closed.
Allow(s) ==
    /\ conn.state = "open"
    /\ limiter[s].pc = "allow"
    /\ \E refill \in 0..BucketSize :
          IF limiter[s].tokens + refill >= 1
          THEN /\ limiter' = [limiter EXCEPT
                                 ![s].tokens =
                                     (IF limiter[s].tokens + refill > BucketSize
                                      THEN BucketSize
                                      ELSE limiter[s].tokens + refill) - 1,
                                 ![s].pc = "decode"]
               /\ UNCHANGED <<conn, blacklist>>
          ELSE /\ limiter' = [limiter EXCEPT ![s].pc = "gone"]
               /\ conn' = [conn EXCEPT !.state = "closed"]
               /\ blacklist' = blacklist \cup {Other(s)}
    /\ UNCHANGED <<store, headers, head, last, accepted, writers, view,
                   pool, peer, wire, msgCh>>

\* readLoop on side s: the next message decoded and sent to msgCh.
Decode(s) ==
    /\ conn.state = "open"
    /\ limiter[s].pc = "decode"
    /\ wire[s] # <<>>
    /\ msgCh' = [msgCh EXCEPT ![s] = Append(@, Head(wire[s]))]
    /\ wire' = [wire EXCEPT ![s] = Tail(@)]
    /\ limiter' = [limiter EXCEPT ![s].pc = "allow"]
    /\ UNCHANGED <<store, headers, head, last, accepted, writers, view,
                   pool, peer, conn, blacklist>>

\* readLoop on side s when the connection has been closed: Decode fails and
\* the loop returns.
Hangup(s) ==
    /\ conn.state = "closed"
    /\ limiter[s].pc \in {"off", "allow", "decode"}
    /\ limiter' = [limiter EXCEPT ![s].pc = "gone"]
    /\ UNCHANGED <<store, headers, head, last, accepted, writers, view,
                   pool, peer, conn, wire, msgCh, blacklist>>

\* ProcessMessages on side s, MessageTypeBlock.
ProcessBlock(s, b) ==
    /\ IF s = "node"
       THEN /\ SetChain(AddBlock(Chain, b).c)
            /\ Return(b, AddBlock(Chain, b).err, BlockHash(b) \notin DOMAIN headers)
            /\ pool' = IF AddBlock(Chain, b).err = Ok
                       THEN MempoolRemove(pool, b.Transactions) ELSE pool
            /\ UNCHANGED peer
       ELSE /\ peer' = [AddBlock(peer, b).c EXCEPT !.steps = 0]
            /\ UNCHANGED <<store, headers, head, last, accepted, pool>>
    /\ UNCHANGED wire

\* ProcessMessages on side s, MessageTypeGetBlocks: the blocks from the hash
\* asked for are sent back, nothing when GetBlocksFrom fails or the sender is
\* no longer among the peers.
ProcessGetBlocks(s, from) ==
    /\ wire' = IF GetBlocksFrom(ChainOf(s), from).err = Ok /\ conn.state = "open"
               THEN [wire EXCEPT ![Other(s)] =
                        @ \o BlockMsgs(GetBlocksFrom(ChainOf(s), from).blocks)]
               ELSE wire
    /\ UNCHANGED <<store, headers, head, last, accepted, pool, peer>>

Process(s) ==
    /\ msgCh[s] # <<>>
    /\ IF Head(msgCh[s]).type = "Block"
       THEN ProcessBlock(s, Head(msgCh[s]).block)
       ELSE ProcessGetBlocks(s, Head(msgCh[s]).from)
    /\ msgCh' = [msgCh EXCEPT ![s] = Tail(@)]
    /\ UNCHANGED <<writers, view, conn, limiter, blacklist>>

NextNet ==
    \/ NodeMines
    \/ PeerMines
    \/ \E s \in Sides : Connect(s)
    \/ \E s \in Sides : HandleHandshake(s)
    \/ \E s \in Sides : Allow(s)
    \/ \E s \in Sides : Decode(s)
    \/ \E s \in Sides : Hangup(s)
    \/ \E s \in Sides : Process(s)

SpecNet == InitNet /\ [][NextNet]_vars

\* Nothing is left to do on the connection: it is closed, or both sides have
\* handled the handshake and no message is in flight; and no message waits
\* for ProcessMessages.
Settled ==
    /\ conn.state # "none"
    /\ \A s \in Sides : msgCh[s] = <<>>
    /\ \/ conn.state = "closed"
       \/ conn.handled = Sides /\ \A s \in Sides : wire[s] = <<>>

\* The node has caught up with the peer.
Synced == head.Height = peer.head.Height /\ HeaderHash(head) = HeaderHash(peer.head)

\* ---- C26
\* C26: when the node connects with its head on one fork and the peer's head
\* on a longer, heavier one, neither side blacklists the other, the
\* connection is not closed, and once the exchange has run its course the
\* node's height and head hash are the peer's.
C26_ForkPeerReorganizes ==
    conn.scenario = "fork" =>
       /\ blacklist = {}
       /\ conn.state # "closed"
       /\ Settled => Synced

\* ---- C27
\* C27: when the node connects to a peer whose main chain extends the node's
\* head, by however many blocks, no side is blacklisted or disconnected, and
\* once the exchange has run its course the node's height and head hash are
\* the peer's.
C27_InitialSyncCompletes ==
    conn.scenario = "extends" =>
       /\ blacklist = {}
       /\ conn.state # "closed"
       /\ Settled => Synced

\* ---- C31
\* C31: the header hash is the same whatever the cumulative-work field holds,
\* so every block of the store and every header of the index lies under the
\* hash of the header as stored, cumulative work set, and after a restart
\* the head marker is the hash of the head that NewBlockchain loads.
C31_HashIgnoresCumulativeWork ==
    /\ Up => \A b \in MinerBlocks \cup PeerBlocks : \A w \in SubmittedWork :
                HeaderHash([b.Header EXCEPT !.CumulativeWork = w]) = HeaderHash(b.Header)
    /\ \A hash \in DOMAIN store.blocks : HeaderHash(store.blocks[hash].Header) = hash
    /\ \A hash \in DOMAIN headers : HeaderHash(headers[hash]) = hash
    /\ (last.op = "NewBlockchain" /\ Up) => store.head = <<HeaderHash(head)>>

\* The node was started again on a block that AddBlock stored with a
\* cumulative work other than the one it was submitted with.
C31_Witness ==
    /\ last.op = "NewBlockchain"
    /\ Up
    /\ headers = <<>>
    /\ head.Height = 1
    /\ head.CumulativeWork = WorkOfDifficulty(InitialDifficulty)
    /\ \E b \in MinerBlocks \cup PeerBlocks :
          /\ BlockHash(b) = HeaderHash(head)
          /\ b.Header.CumulativeWork # head.CumulativeWork

\* ---- C32
\* The Merkle root as described: at every level, the leaf level included, an
\* odd number of nodes has its last node duplicated, and each internal node
\* is Keccak256(left || right).
RECURSIVE ReferenceMerkle(_, _)
ReferenceMerkle(nodes, leafLevel) ==
    IF Len(nodes) = 1 /\ ~leafLevel THEN nodes[1]
    ELSE LET even == IF Len(nodes) % 2 # 0
                     THEN Append(nodes, nodes[Len(nodes)]) ELSE nodes
         IN ReferenceMerkle([i \in 1..(Len(even) \div 2) |->
                                Keccak256([l |-> even[2 * i - 1], r |-> even[2 * i]])],
                            FALSE)

MerkleLeaves(txs) == [i \in 1..Len(txs) |-> Keccak256(TxHash(txs[i]))]

\* C32: the Merkle root in the header of every stored block is the described
\* root of its transactions; for a block holding only its coinbase it is
\* Keccak256(leaf || leaf) with leaf = Keccak256(hash of the coinbase).
C32_MerkleRootDuplicatesOddLevels ==
    \A hash \in DOMAIN store.blocks :
       /\ store.blocks[hash].Header.MerkleRoot =
             ReferenceMerkle(MerkleLeaves(store.blocks[hash].Transactions), TRUE)
       /\ Len(store.blocks[hash].Transactions) = 1 =>
             store.blocks[hash].Header.MerkleRoot =
                Keccak256([l |-> Keccak256(TxHash(store.blocks[hash].Transactions[1])),
                           r |-> Keccak256(TxHash(store.blocks[hash].Transactions[1]))])

\* ---- the miner's search, nonce by nonce, beside the p2p goroutine
\* writers["miner"] is the miner goroutine: "run" while ProofOfWork.Run is
\* in its loop on writers["miner"].block, whose Nonce is the one to try
\* next, "mined" when Run has returned.  The p2p goroutine adds the blocks
\* of a peer meanwhile.
SearchStart ==
    /\ HasRoom
    /\ writers["miner"].pc = "idle"
    /\ writers' = [writers EXCEPT !["miner"] =
                      [pc |-> "run",
                       block |-> createNewBlock(head, MinerAddress(LocalMiner), <<>>,
                                                head.Timestamp + TargetBlockTime)]]
    /\ UNCHANGED <<store, headers, head, last, accepted, view, netvars>>

\* One iteration of the loop of Run: the nonce is tried, and the loop ends
\* or goes on to the next nonce.
SearchStep ==
    /\ writers["miner"].pc = "run"
    /\ IF PowValidate(writers["miner"].block.Header)
       THEN writers' = [writers EXCEPT !["miner"].pc = "mined"]
       ELSE /\ writers["miner"].block.Header.Nonce < MaxNonce
            /\ writers' = [writers EXCEPT !["miner"].block.Header.Nonce = @ + 1]
    /\ UNCHANGED <<store, headers, head, last, accepted, view, netvars>>

\* Miner.loop after Run: AddBlock of the block mined.
SearchAddBlock ==
    /\ writers["miner"].pc = "mined"
    /\ SetChain(AddBlock(Chain, writers["miner"].block).c)
    /\ Return(writers["miner"].block, AddBlock(Chain, writers["miner"].block).err,
              BlockHash(writers["miner"].block) \notin DOMAIN headers)
    /\ writers' = [writers EXCEPT !["miner"].pc = "idle"]
    /\ UNCHANGED <<view, netvars>>

\* ProcessMessages: a block a peer mined on the head arrives.
SearchPeerBlock ==
    /\ HasRoom
    /\ \E b \in MinedOn(head, {[miner |-> "Y", txs |-> <<>>]}, TimeDeltas(head)) :
          /\ SetChain(AddBlock(Chain, b).c)
          /\ Return(b, AddBlock(Chain, b).err, BlockHash(b) \notin DOMAIN headers)
    /\ UNCHANGED <<writers, view, netvars>>

NextSearch == SearchStart \/ SearchStep \/ SearchAddBlock \/ SearchPeerBlock

SpecSearch == Init /\ [][NextSearch]_vars

\* ---- C33
\* C33: once the head is no longer the parent of the block the miner is
\* searching a nonce for, the search does not go on: the next thing the
\* miner goroutine does is abandon it, neither trying a further nonce nor
\* returning a nonce for the stale parent.
C33_SearchAbandonedOnHeadChange ==
    [][(/\ writers["miner"].pc = "run"
        /\ writers["miner"].block.Header.PrevHash # HeaderHash(head)
        /\ writers'["miner"] # writers["miner"])
       => writers'["miner"].pc = "idle"]_vars

\* ---- C34
\* The chain with block b checked, stored and indexed, as reorganizeChain
\* finds it, and the blocks a peer can send that make AddBlock reorganize.
Indexed(b) == addBlockIndex(addBlockCheck(Chain, b).c, b)
ReorgBlocks ==
    {b \in PeerBlocks : addBlockCheck(Chain, b).go /\ Indexed(b).next = "reorg"}

\* The highest block on the ancestry of both a and b.
HighestCommon(blocks, a, b) ==
    CHOOSE h \in AncestryHashes(blocks, a) \cap AncestryHashes(blocks, b) :
       \A g \in AncestryHashes(blocks, a) \cap AncestryHashes(blocks, b) :
          blocks[g].Header.Height <= blocks[h].Header.Height

\* path lists the blocks from tip down to the child of ancestor, tip first.
BranchDown(blocks, path, tip, ancestor) ==
    /\ path = <<>> => tip = ancestor
    /\ path # <<>> =>
          /\ path[1] = tip
          /\ \A i \in 1..(Len(path) - 1) : blocks[path[i]].Header.PrevHash = path[i + 1]
          /\ blocks[path[Len(path)]].Header.PrevHash = ancestor
    /\ \A i \in 1..Len(path) : path[i] # ancestor

\* undo is the undo namespace at some point of a reorganization along
\* paths: blocks are rolled back from the old head downward, applied from
\* the lowest upward, and none is applied before all are rolled back.
RollbackThenApply(undo, paths) ==
    /\ \A j \in 1..Len(paths.blocksToRollback) :
          paths.blocksToRollback[j] \notin DOMAIN undo =>
             \A i \in 1..j : paths.blocksToRollback[i] \notin DOMAIN undo
    /\ \A i \in 1..Len(paths.blocksToApply) :
          paths.blocksToApply[i] \in DOMAIN undo =>
             /\ \A j \in i..Len(paths.blocksToApply) :
                   paths.blocksToApply[j] \in DOMAIN undo
             /\ \A j \in 1..Len(paths.blocksToRollback) :
                   paths.blocksToRollback[j] \notin DOMAIN undo

\* C34: whenever AddBlock reorganizes, the common ancestor is the highest
\* block on the ancestry of both the old and the new head, the rollback path
\* runs from the old head down to the ancestor's child, the apply path from
\* the new head down to the ancestor's child and is applied in reverse, and
\* at every point of the reorganization no block has been applied unless
\* all blocks of the rollback path have been rolled back.
C34_ReorgPaths ==
    \A b \in ReorgBlocks :
       /\ findCommonAncestor(Indexed(b).c, HeaderHash(head), BlockHash(b)).err = Ok
       /\ findCommonAncestor(Indexed(b).c, HeaderHash(head), BlockHash(b)).hash =
             HighestCommon(Indexed(b).c.store.blocks, HeaderHash(head), BlockHash(b))
       /\ reorgPaths(Indexed(b).c, b).err = Ok
       /\ BranchDown(Indexed(b).c.store.blocks, reorgPaths(Indexed(b).c, b).blocksToRollback,
                     HeaderHash(head),
                     HighestCommon(Indexed(b).c.store.blocks, HeaderHash(head), BlockHash(b)))
       /\ BranchDown(Indexed(b).c.store.blocks, reorgPaths(Indexed(b).c, b).blocksToApply,
                     BlockHash(b),
                     HighestCommon(Indexed(b).c.store.blocks, HeaderHash(head), BlockHash(b)))
       /\ \A k \in 0..AddBlock(Chain, b).c.steps :
             RollbackThenApply(AddBlock([Chain EXCEPT !.limit = k], b).c.store.undo,
                               reorgPaths(Indexed(b).c, b))

\* A peer's block makes AddBlock roll back the head and apply two blocks of
\* a side branch, and the reorganization succeeds.
C34_Witness ==
    \E b \in ReorgBlocks :
       /\ Len(reorgPaths(Indexed(b).c, b).blocksToRollback) >= 1
       /\ Len(reorgPaths(Indexed(b).c, b).blocksToApply) = 2
       /\ AddBlock(Chain, b).err = Ok
       /\ HeaderHash(AddBlock(Chain, b).c.head) = BlockHash(b)

\* ---- C35
\* C35: after every completed NewBlockchain or AddBlock call the blocks with
\* an undo record in the store are exactly the blocks of the main chain,
\* from genesis to the head.
C35_UndoRecordsAreMainChain ==
    Up => DOMAIN store.undo = AncestryHashes(store.blocks, HeaderHash(head))

\* ---- C36
\* C36: when AddBlock applies a block that extends the head, none of the
\* keys (tx-hash, index) of the block's outputs is in the UTXO set already,
\* and no two outputs of the block have the same key; so the coinbase
\* outputs of different blocks of one chain have different keys.
C36_UTXOKeysAreFresh ==
    Up => \A b \in MinerBlocks \cup PeerBlocks :
             (/\ addBlockCheck(Chain, b).go
              /\ Indexed(b).next = "extend"
              /\ AddBlock(Chain, b).err = Ok)
             => /\ CreatedKeys(b) \cap DOMAIN store.utxo = {}
                /\ Cardinality(CreatedKeys(b)) = Len(OutputList(b.Transactions, 1))

\* ---- C37
\* Blocks a peer can encode in a block message: one with an empty
\* transaction list on the head, and one of height 0 with zero prev-hash
\* that is not the stored genesis.
EmptyBlock(parentHeader) ==
    Mined([createNewBlock(parentHeader, MinerAddress("Y"), <<>>,
                          parentHeader.Timestamp + TargetBlockTime)
              EXCEPT !.Transactions = <<>>])

OtherGenesis ==
    Mined(NewBlock(NewHeader(ZeroHash, 0, MerkleRoot(<<CoinbaseTx(MinerAddress("Y"))>>),
                             GenesisTimestamp + 1, InitialDifficulty, 0,
                             TargetBlockTime, 0),
                   <<CoinbaseTx(MinerAddress("Y"))>>))

MalformedBlocks == {b \in {EmptyBlock(head), OtherGenesis} : b.Header.Nonce <= MaxNonce}

\* The outcomes that are no return but a nil dereference ending the process.
Panics == {"panic: nil MerkleTree", "panic: nil prevHeader"}

\* C37: for every block a peer can submit, ValidateBlock and AddBlock
\* return, with nil or with an error, and do not end the process.
C37_NoAbortOnPeerBlock ==
    Up => \A b \in PeerBlocks \cup MalformedBlocks :
             /\ ValidateBlock(Chain, b).err \notin Panics
             /\ AddBlock(Chain, b).err \notin Panics

\* ---- block gossip among three nodes
\* Three nodes run the program: the node itself, whose Blockchain is in
\* store, headers and head, and two others, whose Blockchains are peer[n].
\* conn.links holds the connections among them, wire[<<m, n>>] the block
\* messages m has sent to n that n has not processed, conn.mined the blocks
\* mined and conn.sent the block messages sent so far.
Nodes == {"node", "p1", "p2"}

Topologies ==
    {{{"node", "p1"}},
     {{"node", "p1"}, {"p1", "p2"}},
     {{"node", "p1"}, {"node", "p2"}, {"p1", "p2"}}}

\* s.peers of node n.
PeersOf(n) == {m \in Nodes : m # n /\ {m, n} \in conn.links}

ChainAt(n) == IF n = "node" THEN Chain ELSE peer[n]

SetChainAt(n, c) ==
    IF n = "node" THEN SetChain(c) /\ UNCHANGED peer
    ELSE /\ peer' = [peer EXCEPT ![n] = [c EXCEPT !.steps = 0]]
         /\ UNCHANGED <<store, headers, head>>

\* Server.broadcast on node n: the block sent to every peer but excludeAddr.
broadcast(n, b, excludeAddr) ==
    [l \in DOMAIN wire |->
        IF l[1] = n /\ l[2] \in PeersOf(n) \ excludeAddr
        THEN Append(wire[l], b) ELSE wire[l]]

InitGossip ==
    /\ store = NewBlockchain(EmptyStore, InitialDifficulty, -1).c.store
    /\ headers = NewBlockchain(EmptyStore, InitialDifficulty, -1).c.headers
    /\ head = NewBlockchain(EmptyStore, InitialDifficulty, -1).c.head
    /\ last = [op |-> "NewBlockchain", block |-> CreateGenesisBlock(InitialDifficulty),
               err |-> Ok]
    /\ accepted = {BlockHash(CreateGenesisBlock(InitialDifficulty))}
    /\ writers = [w \in Writers |->
                    [pc |-> "idle", block |-> CreateGenesisBlock(InitialDifficulty)]]
    /\ view = [head |-> head, utxo |-> store.utxo]
    /\ pool = {}
    /\ peer = [n \in Nodes \ {"node"} |->
                 [NewBlockchain(EmptyStore, InitialDifficulty, -1).c EXCEPT !.steps = 0]]
    /\ \E links \in Topologies :
          conn = [state |-> "open", links |-> links, mined |-> 0, sent |-> 0]
    /\ wire = [l \in Nodes \X Nodes |-> <<>>]
    /\ msgCh = [s \in Sides |-> <<>>]
    /\ limiter = [s \in Sides |-> [tokens |-> BucketSize, pc |-> "off"]]
    /\ blacklist = {}

\* Miner.loop on node n, which mines to an address of its own: the block
\* mined is added and broadcast to all peers.
GossipMine(n) ==
    /\ conn.mined < MaxGossipBlocks
    /\ \E b \in MinedOn(ChainAt(n).head,
                        {[miner |-> IF n = "node" THEN LocalMiner ELSE n, txs |-> <<>>]},
                        {TargetBlockTime}) :
          /\ SetChainAt(n, AddBlock(ChainAt(n), b).c)
          /\ last' = [op |-> "BroadcastBlock", block |-> b,
                      err |-> AddBlock(ChainAt(n), b).err, at |-> n,
                      duplicate |-> FALSE,
                      sent |-> IF AddBlock(ChainAt(n), b).err = Ok
                               THEN Cardinality(PeersOf(n)) ELSE 0]
          /\ wire' = IF AddBlock(ChainAt(n), b).err = Ok THEN broadcast(n, b, {})
                     ELSE wire
          /\ conn' = [conn EXCEPT !.mined = @ + 1,
                                  !.sent = @ + IF AddBlock(ChainAt(n), b).err = Ok
                                               THEN Cardinality(PeersOf(n)) ELSE 0]
    /\ UNCHANGED <<accepted, writers, view, pool, msgCh, limiter, blacklist>>

\* ProcessMessages on node n, MessageTypeBlock, for the next block message
\* from m: AddBlock, and unless it returns an error the block is broadcast
\* to the peers other than m.
GossipProcess(m, n) ==
    /\ wire[<<m, n>>] # <<>>
    /\ conn.sent < MaxGossipMessages
    /\ SetChainAt(n, AddBlock(ChainAt(n), Head(wire[<<m, n>>])).c)
    /\ last' = [op |-> "ProcessBlock", block |-> Head(wire[<<m, n>>]),
                err |-> AddBlock(ChainAt(n), Head(wire[<<m, n>>])).err, at |-> n,
                duplicate |-> BlockHash(Head(wire[<<m, n>>])) \in DOMAIN ChainAt(n).headers,
                sent |-> IF AddBlock(ChainAt(n), Head(wire[<<m, n>>])).err = Ok
                         THEN Cardinality(PeersOf(n) \ {m}) ELSE 0]
    /\ wire' = [(IF AddBlock(ChainAt(n), Head(wire[<<m, n>>])).err = Ok
                 THEN broadcast(n, Head(wire[<<m, n>>]), {m}) ELSE wire)
                   EXCEPT ![<<m, n>>] = Tail(@)]
    /\ conn' = [conn EXCEPT !.sent = @ + IF AddBlock(ChainAt(n), Head(wire[<<m, n>>])).err = Ok
                                         THEN Cardinality(PeersOf(n) \ {m}) ELSE 0]
    /\ UNCHANGED <<accepted, writers, view, pool, msgCh, limiter, blacklist>>

NextGossip ==
    \/ \E n \in Nodes : GossipMine(n)
    \/ \E m, n \in Nodes : GossipProcess(m, n)

SpecGossip == InitGossip /\ [][NextGossip]_vars

\* ---- C38
\* C38: in every topology each node sends a block at most once to each of
\* its peers, so no more block messages are sent than blocks mined times
\* directed connections; and a node that holds a block already sends it to
\* no peer when it receives it again.
C38_GossipQuiesces ==
    /\ conn.sent <= conn.mined * 2 * Cardinality(conn.links)
    /\ (last.op = "ProcessBlock" /\ last.duplicate) => last.sent = 0

\* ---- C39
\* The outputs the inputs of tx reference.
InputKeys(tx) ==
    {getUTXOKey(tx.Inputs[i].PrevTxHash, tx.Inputs[i].PrevOutIndex) :
        i \in 1..Len(tx.Inputs)}

\* C39: no two transactions of the mempool have an input referencing the
\* same output, and no block the miner builds from GetTransactions fails in
\* AddBlock for an output that is missing.
C39_MempoolHasNoConflicts ==
    /\ \A t1, t2 \in pool : t1 # t2 => InputKeys(t1) \cap InputKeys(t2) = {}
    /\ ShortChain =>
          \A b \in MinerAttempts :
             AddBlock(Chain, b).err \notin
                {"input not found in UTXO set", "could not find UTXO for input"}

\* ---- the mempool under Add, Remove and Clear
\* Mempool.Clear.
MempoolClear ==
    /\ Up /\ Idle
    /\ pool # {}
    /\ pool' = {}
    /\ UNCHANGED <<store, headers, head, last, accepted, writers, view,
                   peer, conn, wire, msgCh, limiter, blacklist>>

NextMempool == SubmitTx \/ MinerLoop \/ ProcessBlockMessage \/ MempoolClear

SpecMempool == Init /\ [][NextMempool]_vars

\* ---- C40
\* The pool holds at most maxSize transactions, before and after any Add.
PoolWithinMaxSize ==
    /\ Cardinality(pool) <= MempoolSize
    /\ \A tx \in SubmittedTxs \cup {DupInputTx, InsufficientFundsTx} :
          Cardinality(MempoolAdd(Chain, pool, tx).pool) <= MempoolSize

\* Add changes the pool only by inserting a transaction that
\* ValidateTransaction accepts on the chain as it is, and then returns nil.
AddInsertsValidated ==
    \A tx \in SubmittedTxs \cup {DupInputTx, InsufficientFundsTx} :
       /\ MempoolAdd(Chain, pool, tx).pool # pool =>
             /\ MempoolAdd(Chain, pool, tx).pool = pool \cup {tx}
             /\ ValidateTransaction(Chain, tx) = Ok
       /\ MempoolAdd(Chain, pool, tx).err = Ok <=> MempoolAdd(Chain, pool, tx).pool # pool

\* GetTransactions(max) returns at most max transactions, all of the pool.
GetReturnsPoolTransactions ==
    \A max \in 0..(MaxBlockSize + 1) : \A txs \in GetTransactions(pool, max) :
       /\ Len(txs) <= max
       /\ \A i \in 1..Len(txs) : txs[i] \in pool

\* C40 as stated: the pool holds at most maxSize transactions; Add of a
\* transaction already in the pool returns ErrTxInMempool and leaves the
\* pool unchanged; Add inserts only what ValidateTransaction accepts;
\* GetTransactions(max) returns at most max transactions of the pool.
C40_AsStated ==
    Up => /\ PoolWithinMaxSize
          /\ AddInsertsValidated
          /\ GetReturnsPoolTransactions
          /\ \A tx \in pool :
                /\ MempoolAdd(Chain, pool, tx).pool = pool
                /\ MempoolAdd(Chain, pool, tx).err = "transaction already in mempool"

\* C40: the pool holds at most maxSize transactions; Add of a transaction
\* already in the pool leaves the pool unchanged and returns ErrTxInMempool
\* while the pool holds fewer than maxSize transactions, "mempool is full"
\* once it holds maxSize; Add inserts only what ValidateTransaction accepts;
\* GetTransactions(max) returns at most max transactions of the pool.
C40_MempoolContract ==
    Up => /\ PoolWithinMaxSize
          /\ AddInsertsValidated
          /\ GetReturnsPoolTransactions
          /\ \A tx \in pool :
                /\ MempoolAdd(Chain, pool, tx).pool = pool
                /\ MempoolAdd(Chain, pool, tx).err =
                      IF Cardinality(pool) < MempoolSize
                      THEN "transaction already in mempool" ELSE "mempool is full"

\* The pool is full and one of its transactions is offered again, after a
\* block has removed a transaction and Add has filled the pool anew.
C40_Witness ==
    /\ Up
    /\ Cardinality(pool) = MempoolSize
    /\ head.Height >= 1
    /\ \E tx \in pool :
          /\ MempoolAdd(Chain, pool, tx).err = "mempool is full"
          /\ MempoolAdd(Chain, pool, tx).pool = pool

====
